---------------------------- MODULE Spec2Model ----------------------------
(***************************************************************************)
(* A model of the OEM719 GPS log parser (OEM719 Log Parser Python).        *)
(*                                                                         *)
(* Text is modelled character by character: a Python str is a sequence of  *)
(* one-character strings, so that substring tests, the regular             *)
(* expressions, split/strip and slicing are computed the way the code      *)
(* computes them.  None is the empty sequence wherever the code only tests *)
(* truthiness (a timestamp, a decoded row, start_time).                    *)
(***************************************************************************)
EXTENDS Integers, Sequences, FiniteSets, TLC

VARIABLES
    file_exists,        \* whether open(file_path) succeeds
    content,            \* the characters of the input file
    offset_bytes,       \* OEM719Parser.offset_bytes
    pos,                \* LogReader.file_handle cursor (0-based)
    input_open,         \* LogReader.file_handle is an open file
    has_lock,           \* result of seek_to_start_position
    pc,                 \* position of parse(): Idle, Seeking, Opening, Running,
                        \*   Completed, Expired, Aborted
    line_count,         \* parse(): line_count
    last_timestamp,     \* TimestampExtractor.last_timestamp (<<>> is None)
    ts_message_count,   \* TimestampExtractor.message_count
    messages_per_second,\* FrequencyFilter.messages_per_second
    message_counter,    \* FrequencyFilter.message_counter (dict)
    recorded_count,     \* FrequencyFilter.recorded_count (dict)
    admitted,           \* history: should_record calls that returned True, per type
    max_duration,       \* DurationLimiter.max_duration, in seconds
    start_time,         \* DurationLimiter.start_time (<<>> is None, <<t>> is set)
    now,                \* the wall clock (datetime.now()), seconds after the GPS epoch
    csv_files,          \* CSVWriterManager.csv_files: type -> "open" | "closed"
    csv_rows,           \* rows written through CSVWriterManager.csv_writers, per type,
                        \*   the header row first
    messages_written,   \* CSVWriterManager.messages_written
    dir_exists,         \* the output directory exists on disk
    iter,               \* history of the last loop iteration of parse()
    call                \* the latest direct call of a decoder: arguments and result

vars == <<file_exists, content, offset_bytes, pos, input_open, has_lock, pc,
          line_count, last_timestamp, ts_message_count, messages_per_second,
          message_counter, recorded_count, admitted, max_duration, start_time,
          now, csv_files, csv_rows, messages_written, dir_exists, iter, call>>

----------------------------------------------------------------------------
(* Python str operations on character sequences.                           *)

\* the ASCII characters str.strip() removes: space, \t, \n, \r, form feed,
\* vertical tab (0x0b) and the separators 0x1c, 0x1d, 0x1e, 0x1f
Whitespace == {" ", "\n", "\t", "\r", "\f", "", "", "", "", ""}

Max(a, b) == IF a >= b THEN a ELSE b

Digits == {"0", "1", "2", "3", "4", "5", "6", "7", "8", "9"}

DigitVal(c) ==
    CASE c = "0" -> 0 [] c = "1" -> 1 [] c = "2" -> 2 [] c = "3" -> 3
      [] c = "4" -> 4 [] c = "5" -> 5 [] c = "6" -> 6 [] c = "7" -> 7
      [] c = "8" -> 8 [] c = "9" -> 9

DigitChar(d) ==
    CASE d = 0 -> "0" [] d = 1 -> "1" [] d = 2 -> "2" [] d = 3 -> "3"
      [] d = 4 -> "4" [] d = 5 -> "5" [] d = 6 -> "6" [] d = 7 -> "7"
      [] d = 8 -> "8" [] d = 9 -> "9"

\* s[i:] with a 1-based i
Drop(s, i) == SubSeq(s, i, Len(s))

\* s.startswith(p, at i)
StartsWithAt(s, p, i) ==
    /\ i + Len(p) - 1 <= Len(s)
    /\ \A k \in 1..Len(p) : s[i + k - 1] = p[k]

StartsWith(s, p) == StartsWithAt(s, p, 1)

\* p in s
Contains(s, p) == \E i \in 1..(Len(s) + 1) : StartsWithAt(s, p, i)

\* index of the first c at or after i, or 0
IndexFrom(s, c, i) ==
    IF \A j \in i..Len(s) : s[j] # c THEN 0
    ELSE CHOOSE j \in i..Len(s) : s[j] = c /\ \A k \in i..(j - 1) : s[k] # c

\* index of the last c in s, or 0
LastIndex(s, c, i) ==
    IF \A j \in 1..i : s[j] # c THEN 0
    ELSE CHOOSE j \in 1..i : s[j] = c /\ \A k \in (j + 1)..i : s[k] # c

\* s.strip()
RECURSIVE LStrip(_)
LStrip(s) ==
    IF s # <<>> /\ Head(s) \in Whitespace THEN LStrip(Tail(s)) ELSE s

RECURSIVE RStrip(_)
RStrip(s) ==
    IF s # <<>> /\ s[Len(s)] \in Whitespace
    THEN RStrip(SubSeq(s, 1, Len(s) - 1)) ELSE s

Strip(s) == RStrip(LStrip(s))

\* s.split(sep) for a one-character sep: a sequence of fields
RECURSIVE Split(_, _)
Split(s, sep) ==
    LET i == IndexFrom(s, sep, 1)
    IN  IF i = 0 THEN <<s>>
        ELSE <<SubSeq(s, 1, i - 1)>> \o Split(Drop(s, i + 1), sep)

\* s.replace(old, '') for a two-character old
RECURSIVE Remove2(_, _)
Remove2(s, old) ==
    IF Len(s) < 2 THEN s
    ELSE IF s[1] = old[1] /\ s[2] = old[2] THEN Remove2(Drop(s, 3), old)
    ELSE <<s[1]>> \o Remove2(Tail(s), old)

\* the end of the run of digits that starts at i (i - 1 when s[i] is no digit)
DigitsEnd(s, i) ==
    IF \A j \in i..Len(s) : s[j] \in Digits THEN Max(Len(s), i - 1)
    ELSE (CHOOSE j \in i..Len(s) :
              s[j] \notin Digits /\ \A k \in i..(j - 1) : s[k] \in Digits) - 1

\* d.lstrip("0") for a string of digits
StripLeadingZeros(d) ==
    IF \A i \in 1..Len(d) : d[i] = "0" THEN <<>>
    ELSE SubSeq(d, CHOOSE i \in 1..Len(d) :
                       d[i] # "0" /\ \A j \in 1..(i - 1) : d[j] = "0", Len(d))

\* sys.int_info.default_max_str_digits: int() refuses a longer string of digits
MaxStrDigits == 4300

\* ValueError: Exceeds the limit (4300 digits) for integer string conversion
ValueError == <<"ValueError">>

\* whether int(s) raises for a string of digits s
IntRefused(s) == Len(s) > MaxStrDigits

\* the number the digits s spell, s without leading zeros
RECURSIVE DigitsValue(_)
DigitsValue(s) ==
    IF s = <<>> THEN 0
    ELSE 10 * DigitsValue(SubSeq(s, 1, Len(s) - 1)) + DigitVal(s[Len(s)])

\* int(s) for a string of digits
ParseInt(s) ==
    IF IntRefused(s) THEN ValueError ELSE DigitsValue(StripLeadingZeros(s))

\* n rendered with at least w digits, zero padded (strftime fields)
RECURSIVE Pad(_, _)
Pad(n, w) ==
    IF w <= 1 /\ n < 10 THEN <<DigitChar(n)>>
    ELSE Pad(n \div 10, w - 1) \o <<DigitChar(n % 10)>>

SeqMap(Op(_), s) == <<>> \o [i \in 1..Len(s) |-> Op(s[i])]

RECURSIVE Flatten(_)
Flatten(ss) == IF ss = <<>> THEN <<>> ELSE Head(ss) \o Flatten(Tail(ss))

----------------------------------------------------------------------------
(* LogReader (log_reader.py).  The file is a character sequence and the     *)
(* cursor a 0-based offset into it; the modelled files are ASCII, so byte   *)
(* offsets and character offsets agree.                                     *)

GpsLockMaxLines == 100

LockMarker == <<"F","I","N","E","S","T","E","E","R","I","N","G">>

\* index of the first line ending character (\n or \r) at or after i, or 0
LineBreak(s, i) ==
    IF \A j \in i..Len(s) : s[j] \notin {"\n", "\r"} THEN 0
    ELSE CHOOSE j \in i..Len(s) :
             s[j] \in {"\n", "\r"} /\ \A k \in i..(j - 1) : s[k] \notin {"\n", "\r"}

\* the line that ends at the line ending e of c (0: at the end of the file): the
\* file is opened in text mode with universal newlines, so \n, \r and \r\n all
\* end a line and are returned as \n
LineUpTo(c, p, e) ==
    IF e = 0 THEN [line |-> SubSeq(c, p + 1, Len(c)), pos |-> Len(c)]
    ELSE [line |-> SubSeq(c, p + 1, e - 1) \o <<"\n">>,
          pos  |-> IF c[e] = "\r" /\ e < Len(c) /\ c[e + 1] = "\n" THEN e + 1 ELSE e]

\* file_handle.readline() at cursor p: the line with its newline, and the new cursor
ReadLine(c, p) ==
    IF p >= Len(c) THEN [line |-> <<>>, pos |-> p]
    ELSE LineUpTo(c, p, LineBreak(c, p + 1))

\* the loop of find_gps_lock: where the scan stops and whether it saw the marker
RECURSIVE ScanLock(_, _, _)
ScanLock(c, p, n) ==
    IF n = 0 THEN [found |-> FALSE, pos |-> p]
    ELSE LET r == ReadLine(c, p)
         IN  IF r.line = <<>> THEN [found |-> FALSE, pos |-> r.pos]
             ELSE IF Contains(r.line, LockMarker) THEN [found |-> TRUE, pos |-> r.pos]
             ELSE ScanLock(c, r.pos, n - 1)

\* a find_gps_lock that forgets to seek back to start_pos
FindGpsLockNoRewind(c, p) == ScanLock(c, p, GpsLockMaxLines)

\* LogReader.find_gps_lock: the result and the cursor it leaves
FindGpsLock(c, p) ==
    LET start_pos == p
        r == ScanLock(c, p, GpsLockMaxLines)
    IN  [found |-> r.found, pos |-> start_pos]

\* LogReader.seek_to_start_position: seek(offset), readline(), find_gps_lock()
SeekToStartPosition(c, off) ==
    LET aligned == ReadLine(c, off)
        lock    == FindGpsLock(c, aligned.pos)
    IN  [has_lock |-> lock.found, pos |-> lock.pos]

\* one step of the generator LogReader.read_lines: the next non-blank stripped
\* line, or end of file
RECURSIVE ReadLines(_, _)
ReadLines(c, p) ==
    LET r == ReadLine(c, p)
    IN  IF r.line = <<>> THEN [eof |-> TRUE, line |-> <<>>, pos |-> r.pos]
        ELSE IF Strip(r.line) # <<>>
             THEN [eof |-> FALSE, line |-> Strip(r.line), pos |-> r.pos]
        ELSE ReadLines(c, r.pos)

----------------------------------------------------------------------------
(* Python numbers.  An int is a natural number of any size, held as a       *)
(* sequence of 15-bit limbs, least significant first and without a leading  *)
(* zero limb (<<>> is 0).  A float is an IEEE-754 double: the record        *)
(* [kind, m, e] stands for m * 2^e when kind is "num"; every result is      *)
(* rounded to 53 bits, ties to even, where the interpreter rounds.  Signs   *)
(* are kept beside the magnitude by the definitions that need them.         *)

LimbBits == 3 * 5
LimbBase == 2^LimbBits

MantissaBits == 53         \* sys.float_info.mant_dig
MaxBinaryExp == 1024       \* sys.float_info.max_exp: every double is below 2^1024
MinBinaryExp == 0 - 1074   \* the smallest positive double is 2^-1074

\* the number of bits of a natural number below LimbBase
RECURSIVE BitLen(_)
BitLen(n) == IF n = 0 THEN 0 ELSE 1 + BitLen(n \div 2)

\* a without its leading zero limbs
BigNorm(a) ==
    IF \A i \in 1..Len(a) : a[i] = 0 THEN <<>>
    ELSE SubSeq(a, 1, CHOOSE i \in 1..Len(a) :
                          a[i] # 0 /\ \A j \in (i + 1)..Len(a) : a[j] = 0)

\* the int n, for n the model can hold
RECURSIVE BigFromInt(_)
BigFromInt(n) ==
    IF n = 0 THEN <<>> ELSE <<n % LimbBase>> \o BigFromInt(n \div LimbBase)

\* the int a as a number of the model (a below 2^31)
RECURSIVE BigToInt(_)
BigToInt(a) == IF a = <<>> THEN 0 ELSE a[1] + LimbBase * BigToInt(Tail(a))

BigBitLen(a) ==
    IF a = <<>> THEN 0 ELSE LimbBits * (Len(a) - 1) + BitLen(a[Len(a)])

BigIsOdd(a) == a # <<>> /\ a[1] % 2 = 1

\* limb i of a, 0 above its length
Limb(a, i) == IF i <= Len(a) THEN a[i] ELSE 0

\* the limbs lo..hi of a * m + c and the carry out of them, for 0 < m < LimbBase
\* and 0 <= c < LimbBase: the lower half first, its carry into the upper half
RECURSIVE BigMulAddAt(_, _, _, _, _)
BigMulAddAt(a, m, c, lo, hi) ==
    IF lo > hi THEN [out |-> <<>>, carry |-> c]
    ELSE IF lo = hi
    THEN [out |-> <<(a[lo] * m + c) % LimbBase>>, carry |-> (a[lo] * m + c) \div LimbBase]
    ELSE LET low  == BigMulAddAt(a, m, c, lo, (lo + hi) \div 2)
             high == BigMulAddAt(a, m, low.carry, (lo + hi) \div 2 + 1, hi)
         IN  [out |-> low.out \o high.out, carry |-> high.carry]

\* the limbs x.out with the carry x.carry above them
WithCarryLimb(x) == IF x.carry = 0 THEN x.out ELSE Append(x.out, x.carry)

\* a * m + c
BigMulAdd(a, m, c) == WithCarryLimb(BigMulAddAt(a, m, c, 1, Len(a)))

\* the limbs hi..lo of a \div d, the most significant first, and the remainder
\* below them, for 0 < d <= LimbBase; r is the remainder of the limbs above hi
RECURSIVE BigDivAt(_, _, _, _, _)
BigDivAt(a, d, r, lo, hi) ==
    IF lo > hi THEN [out |-> <<>>, r |-> r]
    ELSE IF lo = hi
    THEN [out |-> <<(r * LimbBase + a[lo]) \div d>>, r |-> (r * LimbBase + a[lo]) % d]
    ELSE LET high == BigDivAt(a, d, r, (lo + hi) \div 2 + 1, hi)
             low  == BigDivAt(a, d, high.r, lo, (lo + hi) \div 2)
         IN  [out |-> high.out \o low.out, r |-> low.r]

\* x in reverse order
Reversed(x) == [i \in 1..Len(x) |-> x[Len(x) + 1 - i]]

Quotient(x) == [q |-> BigNorm(Reversed(x.out)), r |-> x.r]

\* a \div d and a % d for 0 < d <= LimbBase
BigDivSmall(a, d) == Quotient(BigDivAt(a, d, 0, 1, Len(a)))

\* the limbs lo..hi of a + b + c and the carry out of them
RECURSIVE BigAddAt(_, _, _, _, _)
BigAddAt(a, b, c, lo, hi) ==
    IF lo > hi THEN [out |-> <<>>, carry |-> c]
    ELSE IF lo = hi
    THEN [out   |-> <<(Limb(a, lo) + Limb(b, lo) + c) % LimbBase>>,
          carry |-> (Limb(a, lo) + Limb(b, lo) + c) \div LimbBase]
    ELSE LET low  == BigAddAt(a, b, c, lo, (lo + hi) \div 2)
             high == BigAddAt(a, b, low.carry, (lo + hi) \div 2 + 1, hi)
         IN  [out |-> low.out \o high.out, carry |-> high.carry]

\* a + b
BigAdd(a, b) == WithCarryLimb(BigAddAt(a, b, 0, 1, IF Len(a) >= Len(b) THEN Len(a) ELSE Len(b)))

\* the limbs lo..hi of a - b - c for a >= b, and the borrow out of them
RECURSIVE BigSubAt(_, _, _, _, _)
BigSubAt(a, b, c, lo, hi) ==
    IF lo > hi THEN [out |-> <<>>, carry |-> c]
    ELSE IF lo = hi
    THEN [out   |-> <<(a[lo] + LimbBase - Limb(b, lo) - c) % LimbBase>>,
          carry |-> IF a[lo] < Limb(b, lo) + c THEN 1 ELSE 0]
    ELSE LET low  == BigSubAt(a, b, c, lo, (lo + hi) \div 2)
             high == BigSubAt(a, b, low.carry, (lo + hi) \div 2 + 1, hi)
         IN  [out |-> low.out \o high.out, carry |-> high.carry]

\* a - b for a >= b
BigSub(a, b) == BigNorm(BigSubAt(a, b, 0, 1, Len(a)).out)

\* whether a < b
BigLess(a, b) ==
    IF Len(a) # Len(b) THEN Len(a) < Len(b)
    ELSE \E i \in 1..Len(a) : a[i] < b[i] /\ \A j \in (i + 1)..Len(a) : a[j] = b[j]

\* a * 2^k
BigShl(a, k) ==
    IF a = <<>> THEN <<>>
    ELSE [i \in 1..(k \div LimbBits) |-> 0] \o BigMulAdd(a, 2^(k % LimbBits), 0)

\* a \div 2^k, and whether a % 2^k is not 0
BigShr(a, k) ==
    IF k \div LimbBits >= Len(a) THEN [q |-> <<>>, lost |-> a # <<>>]
    ELSE LET x == BigDivSmall(SubSeq(a, k \div LimbBits + 1, Len(a)), 2^(k % LimbBits))
         IN  [q |-> x.q,
              lost |-> x.r # 0 \/ \E i \in 1..(k \div LimbBits) : a[i] # 0]

\* a % 2^k
BigLow(a, k) ==
    IF k \div LimbBits >= Len(a) THEN a
    ELSE BigNorm([i \in 1..(k \div LimbBits + 1) |->
                    IF i <= k \div LimbBits THEN a[i] ELSE a[i] % 2^(k % LimbBits)])

\* the number of zero bits below the lowest one bit of n > 0
RECURSIVE TrailingZeros(_)
TrailingZeros(n) == IF n % 2 = 1 THEN 0 ELSE 1 + TrailingZeros(n \div 2)

\* the lowest limb of a > 0 that is not 0
LowestLimb(a) == CHOOSE i \in 1..Len(a) : a[i] # 0 /\ \A j \in 1..(i - 1) : a[j] = 0

\* the number of zero bits below the lowest one bit of a > 0
BigLowZeros(a) == LimbBits * (LowestLimb(a) - 1) + TrailingZeros(a[LowestLimb(a)])

\* bit i of a, the lowest bit being bit 1
BigBit(a, i) ==
    (a[(i - 1) \div LimbBits + 1] \div 2^((i - 1) % LimbBits)) % 2

\* one step of the long division by b > 0: the quotient bit and the remainder,
\* r2 being twice the remainder so far plus the next bit of the dividend
BigDivStep(r2, b) ==
    IF BigLess(r2, b) THEN [q |-> <<>>, r |-> r2] ELSE [q |-> <<1>>, r |-> BigSub(r2, b)]

\* the long division of the bits hi..lo of a by b > 0: the quotient of those
\* bits and the remainder below them; r is the remainder of the bits above hi
RECURSIVE BigDivBits(_, _, _, _, _)
BigDivBits(a, b, r, lo, hi) ==
    IF lo > hi THEN [q |-> <<>>, r |-> r]
    ELSE IF lo = hi THEN BigDivStep(BigMulAdd(r, 2, BigBit(a, lo)), b)
    ELSE LET high == BigDivBits(a, b, r, (lo + hi) \div 2 + 1, hi)
             low  == BigDivBits(a, b, high.r, lo, (lo + hi) \div 2)
         IN  [q |-> BigAdd(BigShl(high.q, (lo + hi) \div 2 - lo + 1), low.q),
              r |-> low.r]

\* a \div b and a % b, for b > 0: the bits of a above the length of b are less
\* than b, so the division starts below them
BigDivMod(a, b) ==
    IF BigBitLen(a) < BigBitLen(b) THEN [q |-> <<>>, r |-> a]
    ELSE BigDivBits(a, b, BigShr(a, BigBitLen(a) - BigBitLen(b) + 1).q,
                    1, BigBitLen(a) - BigBitLen(b) + 1)

\* a * 10^k, by halves of k
RECURSIVE BigMulPow10(_, _)
BigMulPow10(a, k) ==
    IF a = <<>> THEN <<>>
    ELSE IF k <= 4 THEN BigMulAdd(a, 10^k, 0)
    ELSE BigMulPow10(BigMulPow10(a, k \div 2), k - k \div 2)

\* int(s) for a string of digits of any length: the high half times a power
\* of ten, plus the low half
RECURSIVE BigDigits(_)
BigDigits(s) ==
    IF Len(s) <= 4 THEN BigFromInt(DigitsValue(s))
    ELSE BigAdd(BigMulPow10(BigDigits(SubSeq(s, 1, Len(s) - Len(s) \div 2)),
                            Len(s) \div 2),
                BigDigits(SubSeq(s, Len(s) - Len(s) \div 2 + 1, Len(s))))

\* int(s) for a string of digits of any length: a Python int, or ValueError
BigFromDigits(s) == IF IntRefused(s) THEN ValueError ELSE BigDigits(s)

\* a \div 10^k, by halves of k, and whether the division lost a remainder
\* (or lost is set)
RECURSIVE BigDivPow10(_, _, _)
BigDivPow10(a, k, lost) ==
    IF a = <<>> THEN [q |-> <<>>, lost |-> lost]
    ELSE IF k <= 4
    THEN [q |-> BigDivSmall(a, 10^k).q, lost |-> lost \/ BigDivSmall(a, 10^k).r # 0]
    ELSE LET x == BigDivPow10(a, k \div 2, lost)
         IN  BigDivPow10(x.q, k - k \div 2, x.lost)

\* a float operation that raised instead of giving a double
DoubleRaise == [kind |-> "raise", m |-> <<>>, e |-> 0]

DoubleZero == [kind |-> "zero", m |-> <<>>, e |-> 0]
DoubleInf == [kind |-> "inf", m |-> <<>>, e |-> 0]

\* the double m * 2^e, for m of at most 53 bits (2^53 included); infinity beyond
\* the largest double
Finite(m, e) ==
    IF m = <<>> THEN DoubleZero
    ELSE IF BigBitLen(m) + e > MaxBinaryExp THEN DoubleInf
    ELSE [kind |-> "num", m |-> m, e |-> e]

\* q \div 2^k rounded to the nearest number, ties to even, for k >= 1; lost tells
\* that q stands for a number a little above q
RoundShift(q, lost, k) ==
    LET x == BigShr(q, k - 1)
        m == BigShr(x.q, 1).q
    IN  IF BigIsOdd(x.q) /\ (x.lost \/ lost \/ BigIsOdd(m)) THEN BigAdd(m, <<1>>)
        ELSE m

\* the place of the lowest bit of the double nearest to q * 2^x
LowestBit(q, x) == Max(x + BigBitLen(q) - MantissaBits, MinBinaryExp)

\* the double nearest to (q + f) * 2^x, where 0 <= f < 1, and f > 0 exactly when
\* lost; q has more than 53 bits whenever lost
RoundToDouble(q, lost, x) ==
    IF LowestBit(q, x) <= x THEN Finite(q, x)
    ELSE Finite(RoundShift(q, lost, LowestBit(q, x) - x), LowestBit(q, x))

\* the double nearest to n / 10^k, computed from n * 2^s \div 10^k
ScaledDown(n, k, s) ==
    LET x == BigDivPow10(BigShl(n, s), k, FALSE)
    IN  RoundToDouble(x.q, x.lost, 0 - s)

\* the double nearest to n * 10^p
ScaledDecimal(n, p) ==
    IF p >= 0 THEN RoundToDouble(BigMulPow10(n, p), FALSE, 0)
    ELSE ScaledDown(n, 0 - p, Max(0, 57 + ((0 - p) * 3322) \div 1000 - BigBitLen(n)))

\* the double nearest to the decimal numeral d * 10^p, d a string of digits
\* without leading zeros: what strtod gives, infinity past the largest double
\* and zero below half the smallest one
DecimalToDouble(d, p) ==
    IF d = <<>> THEN DoubleZero
    ELSE IF Len(d) + p > 310 THEN DoubleInf
    ELSE IF Len(d) + p < 0 - 330 THEN DoubleZero
    ELSE ScaledDecimal(BigDigits(d), p)

\* MAX_DIGITS of strtod: the most digits, and the most fraction digits, of a
\* numeral float() accepts
MaxDigits == 1000000000

\* whether float() raises ValueError for the length of a numeral with the integer
\* digits ip and the fraction digits fp: its digits are counted without the
\* leading zeros, its fraction digits with them
FloatRefused(ip, fp) ==
    Len(StripLeadingZeros(ip \o fp)) > MaxDigits \/ Len(fp) > MaxDigits

\* float(n) for an int n: PyLong_AsDouble (infinity stands for its OverflowError)
IntToDouble(n) == RoundToDouble(n, FALSE, 0)

\* hi + lo for hi.e >= lo.e
AddAligned(hi, lo) ==
    IF lo.e + BigBitLen(lo.m) + 56 <= hi.e
    THEN RoundToDouble(BigShl(hi.m, 56), TRUE, hi.e - 56)
    ELSE RoundToDouble(BigAdd(BigShl(hi.m, hi.e - lo.e), lo.m), FALSE, lo.e)

\* a + b in double arithmetic, for a, b >= 0
DoubleAdd(a, b) ==
    IF a.kind = "inf" \/ b.kind = "inf" THEN DoubleInf
    ELSE IF a.kind = "zero" THEN b
    ELSE IF b.kind = "zero" THEN a
    ELSE IF a.e >= b.e THEN AddAligned(a, b)
    ELSE AddAligned(b, a)

\* modf(a, &intpart) for a finite a >= 0: the whole part, an int
DoubleWhole(a) ==
    IF a.kind = "zero" THEN <<>>
    ELSE IF a.e >= 0 THEN BigShl(a.m, a.e)
    ELSE BigShr(a.m, 0 - a.e).q

\* modf(a, &intpart) for a finite a >= 0: the fraction, a double
DoubleFraction(a) ==
    IF a.kind = "zero" \/ a.e >= 0 THEN DoubleZero
    ELSE Finite(BigLow(a.m, 0 - a.e), a.e)

\* a * 1e6 in double arithmetic, for a finite a >= 0
DoubleTimesMillion(a) ==
    IF a.kind = "zero" THEN DoubleZero
    ELSE RoundToDouble(BigMulAdd(BigMulAdd(a.m, 1000, 0), 1000, 0), FALSE, a.e)

\* a \div b for b > 0, and whether a % b is not 0
BigQuotient(a, b) ==
    IF Len(b) = 1
    THEN [q |-> BigDivSmall(a, b[1]).q, lost |-> BigDivSmall(a, b[1]).r # 0]
    ELSE [q |-> BigDivMod(a, b).q, lost |-> BigDivMod(a, b).r # <<>>]

\* the double nearest to n / d, for ints n > 0 and 0 < d < LimbBase
RatioToDouble(n, d) ==
    LET x == BigDivSmall(BigShl(BigFromInt(n), 57 + BitLen(d)), d)
    IN  RoundToDouble(x.q, x.r # 0, 0 - (57 + BitLen(d)))

\* 1.0 / (m * 2^e) in double arithmetic, for an odd m
OddReciprocal(m, e) ==
    LET x == BigQuotient(BigShl(<<1>>, BigBitLen(m) + 56), m)
    IN  RoundToDouble(x.q, x.lost, 0 - (BigBitLen(m) + 56) - e)

\* 1.0 / f in double arithmetic, for a finite f >= 0; 1.0 / 0.0 raises
Reciprocal(f) ==
    IF f.kind = "zero" THEN DoubleRaise ELSE
    OddReciprocal(BigShr(f.m, BigLowZeros(f.m)).q, f.e + BigLowZeros(f.m))

\* whether a finite double a in [0, 1) is above (1), at (0) or below (-1) 1/2
AgainstHalf(a) ==
    IF a.kind = "zero" THEN 0 - 1
    ELSE IF BigLess(BigShl(a.m, 1), BigShl(<<1>>, 0 - a.e)) THEN 0 - 1
    ELSE IF BigLess(BigShl(<<1>>, 0 - a.e), BigShl(a.m, 1)) THEN 1
    ELSE 0

----------------------------------------------------------------------------
(* TimestampExtractor (timestamp_extractor.py).  An instant is             *)
(* [day, sec, micro]: days after the GPS epoch, second of the day,          *)
(* microsecond.  The wall clock is read in whole seconds.                   *)

GpsEpochDay == 3657        \* datetime(1980, 1, 6), in days after 1970-01-01
MaxDay == 2929239          \* datetime.max (9999-12-31), in days after the GPS epoch
SecondsPerDay == 86400
DaysPerWeek == 7

\* re.search(r',(\d+),(\d+\.\d+),', line) anchored at i: the groups, or <<>>
MatchWeekSecondsAt(s, i) ==
    LET e1 == DigitsEnd(s, i + 1)
        e2 == DigitsEnd(s, e1 + 2)
        e3 == DigitsEnd(s, e2 + 2)
    IN  IF /\ i <= Len(s) /\ s[i] = ","
           /\ e1 >= i + 1 /\ e1 + 1 <= Len(s) /\ s[e1 + 1] = ","
           /\ e2 >= e1 + 2 /\ e2 + 1 <= Len(s) /\ s[e2 + 1] = "."
           /\ e3 >= e2 + 2 /\ e3 + 1 <= Len(s) /\ s[e3 + 1] = ","
        THEN <<SubSeq(s, i + 1, e1), SubSeq(s, e1 + 2, e2), SubSeq(s, e2 + 2, e3)>>
        ELSE <<>>

\* the leftmost match of the week/seconds pattern: <<week, whole, fraction>> or <<>>
SearchWeekSeconds(s, i) ==
    IF \A j \in i..Len(s) : MatchWeekSecondsAt(s, j) = <<>> THEN <<>>
    ELSE MatchWeekSecondsAt(s, CHOOSE j \in i..Len(s) :
             /\ MatchWeekSecondsAt(s, j) # <<>>
             /\ \A k \in i..(j - 1) : MatchWeekSecondsAt(s, k) = <<>>)

\* the civil date <<year, month, day>> of a day number counted from 1970-01-01
CivilFromDays(days) ==
    LET z   == days + 719468
        era == z \div 146097
        doe == z - era * 146097
        yoe == (doe - doe \div 1460 + doe \div 36524 - doe \div 146096) \div 365
        doy == doe - (365 * yoe + yoe \div 4 - yoe \div 100)
        mp  == (5 * doy + 2) \div 153
        d   == doy - (153 * mp + 2) \div 5 + 1
        m   == IF mp < 10 THEN mp + 3 ELSE mp - 9
        y   == yoe + era * 400 + (IF m <= 2 THEN 1 ELSE 0)
    IN  <<y, m, d>>

\* dt.strftime("%m/%d/%Y %I:%M:%S.%f %p")
StrfTime(t) ==
    LET ymd  == CivilFromDays(GpsEpochDay + t.day)
        h24  == t.sec \div 3600
        h12  == IF h24 % 12 = 0 THEN 12 ELSE h24 % 12
        mi   == (t.sec % 3600) \div 60
        ss   == t.sec % 60
        ampm == IF h24 < 12 THEN <<"A", "M">> ELSE <<"P", "M">>
    IN  Pad(ymd[2], 2) \o <<"/">> \o Pad(ymd[3], 2) \o <<"/">> \o Pad(ymd[1], 4)
        \o <<" ">> \o Pad(h12, 2) \o <<":">> \o Pad(mi, 2) \o <<":">> \o Pad(ss, 2)
        \o <<".">> \o Pad(t.micro, 6) \o <<" ">> \o ampm

\* s[:-3]
DropLast3(s) == SubSeq(s, 1, Len(s) - 3)

\* strftime(...)[:-3], the rendering both timestamp sources use
Render(t) == DropLast3(StrfTime(t))

\* datetime.now() at wall-clock second n
ClockInstant(n) ==
    [day |-> n \div SecondsPerDay, sec |-> n % SecondsPerDay, micro |-> 0]

\* week * 7 * 24 * 3600, an int
WeekSeconds(week) ==
    BigMulAdd(BigMulAdd(BigMulAdd(week, DaysPerWeek, 0), 24, 0), 3600, 0)

\* the exception line 64 raises to the caller of extract_from_line
OverflowError == <<"OverflowError">>

\* total_seconds = week * 7 * 24 * 3600 + seconds (line 64, before the try):
\* the int is converted to a float, which raises OverflowError when no double
\* holds it, and the sum is rounded to a double
TotalSeconds(week, seconds) ==
    IF IntToDouble(WeekSeconds(week)).kind = "inf" THEN DoubleRaise
    ELSE DoubleAdd(IntToDouble(WeekSeconds(week)), seconds)

\* the microseconds timedelta makes of the fraction f of its seconds: the double
\* 1e6 * f, its own fraction rounded half to even (0..1000000)
FractionMicros(f) ==
    LET p  == DoubleTimesMillion(f)
        us == BigToInt(DoubleWhole(p))
        h  == AgainstHalf(DoubleFraction(p))
    IN  IF h > 0 \/ (h = 0 /\ us % 2 = 1) THEN us + 1 ELSE us

\* whole seconds and us microseconds, normalised as timedelta does
WithCarry(whole, us) ==
    [whole |-> IF us = 1000000 THEN BigAdd(whole, <<1>>) ELSE whole,
     micro |-> us % 1000000]

\* timedelta(seconds = total) for a finite total: whole seconds (an int) and
\* microseconds
Timedelta(total) ==
    WithCarry(DoubleWhole(total), FractionMicros(DoubleFraction(total)))

\* the day and the second of the day of whole seconds (86400 = 300 * 288)
DayAndSecond(x, y, micro) ==
    [day |-> BigToInt(y.q), sec |-> y.r * 300 + x.r, micro |-> micro]

\* gps_epoch + td, for a td of fewer than 2^40 seconds
GpsInstant(td) ==
    DayAndSecond(BigDivSmall(td.whole, 300),
                 BigDivSmall(BigDivSmall(td.whole, 300).q, 288), td.micro)

\* whether gps_epoch + timedelta(seconds = total) is a datetime: timedelta and
\* the addition raise OverflowError otherwise
InRange(total) ==
    \/ total.kind = "zero"
    \/ /\ total.kind = "num"
       /\ BigBitLen(total.m) + total.e < 40
       /\ GpsInstant(Timedelta(total)).day <= MaxDay

\* the try block of _format_gps_time and its except branch
Formatted(total, clock) ==
    IF total.kind = "raise" THEN OverflowError
    ELSE IF InRange(total) THEN Render(GpsInstant(Timedelta(total)))
    ELSE Render(ClockInstant(clock))

\* TimestampExtractor._format_gps_time(week, seconds), week an int and seconds a
\* float that is not negative
FormatGpsTime(week, seconds, clock) == Formatted(TotalSeconds(week, seconds), clock)

\* float(match.group(2)) for a match m of the week/seconds pattern
PairSeconds(m) ==
    IF FloatRefused(m[2], m[3]) THEN ValueError
    ELSE DecimalToDouble(StripLeadingZeros(m[2] \o m[3]), 0 - Len(m[3]))

\* a timestamp taken from the wall clock whatever the line carries
MatchTimestampByClock(m, clock) == Render(ClockInstant(clock))

\* the timestamp of a match m of the week/seconds pattern: week = int(group 1)
\* (line 35) or seconds = float(group 2) (line 36) raises ValueError before
\* _format_gps_time is called
MatchTimestamp(m, clock) ==
    IF IntRefused(m[1]) \/ FloatRefused(m[2], m[3]) THEN ValueError
    ELSE FormatGpsTime(BigFromDigits(m[1]), PairSeconds(m), clock)

\* an extractor that returns the derived timestamp without remembering it
StoreForgetful(timestamp, last) ==
    [timestamp |-> timestamp, last |-> last, derived |-> TRUE]

\* extract_from_line, the branch taken on a match: self.last_timestamp = timestamp
StoreTimestamp(timestamp, last) ==
    [timestamp |-> timestamp, last |-> timestamp, derived |-> TRUE]

\* extract_from_line on a match, given what _format_gps_time did: an exception
\* leaves the extractor as it was
Stored(timestamp, last) ==
    IF timestamp \in {OverflowError, ValueError}
    THEN [timestamp |-> timestamp, last |-> last, derived |-> FALSE]
    ELSE StoreTimestamp(timestamp, last)

\* extract_from_line, given the result m of re.search
Extracted(m, last, clock) ==
    IF m # <<>> THEN Stored(MatchTimestamp(m, clock), last)
    ELSE [timestamp |-> last, last |-> last, derived |-> FALSE]

\* TimestampExtractor.extract_from_line: the timestamp returned, the new
\* last_timestamp, and whether a week/seconds pair was found
ExtractFromLine(line, last, clock) ==
    Extracted(SearchWeekSeconds(line, 1), last, clock)

\* TimestampExtractor.get_current_timestamp
GetCurrentTimestamp(last, clock) ==
    IF last # <<>> THEN last ELSE Render(ClockInstant(clock))

----------------------------------------------------------------------------
(* Message parsers (message_parsers.py).  A row is a sequence of fields;    *)
(* the row <<>> stands for None.                                            *)

MarkerBESTXYZA == <<"#","B","E","S","T","X","Y","Z","A">>
MarkerTIMEA == <<"#","T","I","M","E","A">>
MarkerPSRDOPA == <<"#","P","S","R","D","O","P","A">>
MarkerHWMONITORA == <<"#","H","W","M","O","N","I","T","O","R","A">>
MarkerGPGSV == <<"$","G","P","G","S","V">>
NoValue == <<"#","N","V">>

MaxSats == 100
PsrdopDataFields == 6
TimeOffsetIndex == 12
TimeOffsetStdIndex == 13

\* the last index a run of . (any character but a newline) starting at i can reach
DotEnd(line, i) ==
    LET nl == IndexFrom(line, "\n", i)
    IN  IF nl = 0 THEN Len(line) ELSE nl - 1

\* re.match(marker + r',([^;]+);(.+)\*', line): <<header_part, data_part>> or <<>>
MatchHeaderData(marker, line) ==
    LET h0   == Len(marker) + 2
        semi == IndexFrom(line, ";", h0)
        star == LastIndex(line, "*", DotEnd(line, semi + 1))
    IN  IF /\ StartsWith(line, marker \o <<",">>)
           /\ semi > h0
           /\ star >= semi + 2
        THEN <<SubSeq(line, h0, semi - 1), SubSeq(line, semi + 1, star - 1)>>
        ELSE <<>>

\* [f.strip() for f in part.split(',')]
Fields(part) == SeqMap(Strip, Split(part, ","))

RemoveQuotes(f) == Remove2(f, <<"\"", "\"">>)

\* BestXYZParser.parse
BestXYZParse(timestamp, line) ==
    LET m == MatchHeaderData(MarkerBESTXYZA, line)
    IN  IF m = <<>> THEN <<>>
        ELSE LET header_fields == Fields(m[1])
                 data_fields   == SeqMap(RemoveQuotes, Fields(m[2]))
             IN  <<timestamp, MarkerBESTXYZA>> \o Tail(header_fields) \o data_fields

\* PSRDOPAParser.parse
PSRDOPAParse(timestamp, line) ==
    LET m == MatchHeaderData(MarkerPSRDOPA, line)
    IN  IF m = <<>> THEN <<>>
        ELSE LET header_fields == Fields(m[1])
                 data_fields   == Fields(m[2])
                 kept == IF Len(data_fields) > PsrdopDataFields
                         THEN SubSeq(data_fields, 1, PsrdopDataFields)
                         ELSE data_fields
             IN  <<timestamp, MarkerPSRDOPA>> \o Tail(header_fields) \o kept

\* the sensor identifiers HWMonitorAParser looks up, in output order
SensorIds ==
    << <<"1","0","0">>, <<"2","0","0">>, <<"6","0","0">>, <<"7","0","0">>,
       <<"8","0","0">>, <<"f","0","0">>, <<"1","1","0","0">>, <<"1","5","0","0">>,
       <<"1","6","0","0">> >>

StatusFlags == [k \in 1..9 |-> <<"0">>]

\* readings.get(id, ''): data_fields holds count, value1, id1, value2, id2, ...;
\* the pair at the 0-based indices (i, i + 1), i odd, is (value, identifier), and
\* a later pair overwrites an earlier one with the same identifier
ReadingsGet(data_fields, id) ==
    LET hits == {i \in 1..Len(data_fields) :
                    /\ i % 2 = 0
                    /\ i + 1 <= Len(data_fields)
                    /\ data_fields[i + 1] = id}
    IN  IF hits = {} THEN <<>>
        ELSE data_fields[CHOOSE i \in hits : \A j \in hits : j <= i]

\* HWMonitorAParser.parse
HWMonitorAParse(timestamp, line) ==
    LET m == MatchHeaderData(MarkerHWMONITORA, line)
    IN  IF m = <<>> THEN <<>>
        ELSE LET header_fields == Fields(m[1])
                 data_fields   == Fields(m[2])
                 LookUp(id)    == ReadingsGet(data_fields, id)
             IN  <<timestamp, MarkerHWMONITORA>> \o Tail(header_fields)
                 \o SeqMap(LookUp, SensorIds) \o StatusFlags

\* re.match(r'\$GPGSV,(\d+),(\d+),(\d+),(.+)\*', line):
\* <<total_msgs, msg_num, total_sats, sat_info>> or <<>>
MatchGPGSV(line) ==
    LET a0 == Len(MarkerGPGSV) + 2
        a1 == DigitsEnd(line, a0)
        b1 == DigitsEnd(line, a1 + 2)
        c1 == DigitsEnd(line, b1 + 2)
        star == LastIndex(line, "*", DotEnd(line, c1 + 2))
    IN  IF /\ StartsWith(line, MarkerGPGSV \o <<",">>)
           /\ a1 >= a0 /\ a1 + 1 <= Len(line) /\ line[a1 + 1] = ","
           /\ b1 >= a1 + 2 /\ b1 + 1 <= Len(line) /\ line[b1 + 1] = ","
           /\ c1 >= b1 + 2 /\ c1 + 1 <= Len(line) /\ line[c1 + 1] = ","
           /\ star >= c1 + 3
        THEN <<SubSeq(line, a0, a1), SubSeq(line, a1 + 2, b1),
               SubSeq(line, b1 + 2, c1), SubSeq(line, c1 + 2, star - 1)>>
        ELSE <<>>

\* whether one of int(match.group(1)), int(match.group(2)), int(match.group(3))
\* (lines 154-156) raises for the match m
IntsRefused(m) == m # <<>> /\ \E i \in 1..3 : IntRefused(m[i])

\* whether parse_multi raises: its loop reaches a line with a group int() refuses
ParseMultiRaises(lines) ==
    \E k \in 1..Len(lines) :
        /\ \A j \in 1..k : StartsWith(lines[j], MarkerGPGSV)
        /\ IntsRefused(MatchGPGSV(lines[k]))

\* the for loop of parse_multi over lines[k..]: the lines consumed, the satellite
\* data collected and the last total_sats seen
\* the body of the loop for a line that starts with the marker, m its re.match
GPGSVLine(acc, m) ==
    IF m = <<>> THEN [acc EXCEPT !.lines_consumed = @ + 1]
    ELSE IF IntsRefused(m) THEN ValueError
    ELSE [acc EXCEPT !.lines_consumed = @ + 1,
                     !.total_sats = ParseInt(m[3]),
                     !.satellite_data = @ \o Split(m[4], ",")]

RECURSIVE GPGSVScan(_, _, _)
GPGSVScan(lines, k, acc) ==
    IF k > Len(lines) \/ ~StartsWith(lines[k], MarkerGPGSV) THEN acc
    ELSE IF IntsRefused(MatchGPGSV(lines[k])) THEN ValueError
    ELSE GPGSVScan(lines, k + 1, GPGSVLine(acc, MatchGPGSV(lines[k])))

\* satellite_data[i].strip() if it is there and not empty, else '#NV'
Slot(satellite_data, i) ==
    IF i > Len(satellite_data) THEN NoValue
    ELSE IF Strip(satellite_data[i]) = <<>> THEN NoValue
    ELSE Strip(satellite_data[i])

\* parse_multi after its loop, r being what the loop collected
GPGSVResult(timestamp, r) ==
    IF r.lines_consumed = 0 THEN [row |-> <<>>, lines_consumed |-> 0]
    ELSE [row |-> <<timestamp, Pad(r.total_sats, 1)>> \o
                  [i \in 1..(MaxSats * 4) |-> Slot(r.satellite_data, i)],
          lines_consumed |-> r.lines_consumed]

\* GPGSVParser.parse_multi: (row, lines_consumed), or the ValueError it raises
GPGSVParseMulti(timestamp, lines) ==
    IF ParseMultiRaises(lines) THEN ValueError
    ELSE GPGSVResult(timestamp,
            GPGSVScan(lines, 1,
                [lines_consumed |-> 0, total_sats |-> 0, satellite_data |-> <<>>]))

----------------------------------------------------------------------------
(* float(text) and f"{value:.5E}" as TimeAParser uses them.  A float is     *)
(* the double nearest to the numeral, with its sign: [kind, neg, m, e].  It *)
(* is formatted from its exact binary value, rounded half to even to six    *)
(* significant digits.                                                      *)

SciDigits == 5

\* the characters float() skips before and after the numeral: space, \t, \n,
\* \r, form feed and vertical tab, not the separators 0x1c-0x1f
FloatSpace == Whitespace \ {"", "", "", ""}

\* the text between the leading and the trailing FloatSpace characters
FloatStrip(s) ==
    IF \A i \in 1..Len(s) : s[i] \in FloatSpace THEN <<>>
    ELSE SubSeq(s,
                CHOOSE i \in 1..Len(s) :
                    s[i] \notin FloatSpace /\ \A j \in 1..(i - 1) : s[j] \in FloatSpace,
                CHOOSE i \in 1..Len(s) :
                    s[i] \notin FloatSpace
                    /\ \A j \in (i + 1)..Len(s) : s[j] \in FloatSpace)

LowerChar(c) ==
    CASE c = "I" -> "i" [] c = "N" -> "n" [] c = "F" -> "f" [] c = "A" -> "a"
      [] c = "T" -> "t" [] c = "Y" -> "y" [] c = "E" -> "e" [] OTHER -> c

Signed(neg, v) == [kind |-> v.kind, neg |-> neg, m |-> v.m, e |-> v.e]

\* the value of a numeral: sign, integer digits ip, fraction digits fp, exponent
FloatValue(neg, ip, fp, expo) ==
    Signed(neg, DecimalToDouble(StripLeadingZeros(ip \o fp), expo - Len(fp)))

FloatError == [kind |-> "error", neg |-> FALSE, m |-> <<>>, e |-> 0]

\* the exponent written with the digits d (no leading zeros), as strtod reads
\* it: in full up to nine digits, and as 1100000000 (MAX_ABS_EXP) beyond
ExponentValue(d) == IF Len(d) > 9 THEN 1100000000 ELSE DigitsValue(d)

\* the exponent part of the numeral u, whose mantissa ends at fe; xs is the place
\* of the first exponent digit and xe the end of the exponent digits
FloatExponent(neg, u, ip, fp, fe, xs, xe) ==
    IF Len(ip) + Len(fp) = 0 \/ FloatRefused(ip, fp) THEN FloatError
    ELSE IF fe = Len(u) THEN FloatValue(neg, ip, fp, 0)
    ELSE IF u[fe + 1] # "e" \/ xe < xs \/ xe # Len(u) THEN FloatError
    ELSE FloatValue(neg, ip, fp,
             (IF u[xs - 1] = "-" THEN 0 - 1 ELSE 1)
             * ExponentValue(StripLeadingZeros(SubSeq(u, xs, xe))))

\* the numeral u from the end fe of its mantissa on
FloatTail(neg, u, ip, fp, fe, xs) ==
    FloatExponent(neg, u, ip, fp, fe, xs, DigitsEnd(u, xs))

\* the numeral u, whose integer digits end at ie and whose mantissa ends at fe
FloatMantissa(neg, u, ie, fe) ==
    FloatTail(neg, u, SubSeq(u, 1, ie),
              IF fe > ie THEN SubSeq(u, ie + 2, fe) ELSE <<>>, fe,
              IF fe + 2 <= Len(u) /\ u[fe + 2] \in {"+", "-"} THEN fe + 3 ELSE fe + 2)

\* the numeral u, whose integer digits end at ie
FloatFraction(neg, u, ie) ==
    FloatMantissa(neg, u, ie,
                  IF ie + 1 <= Len(u) /\ u[ie + 1] = "." THEN DigitsEnd(u, ie + 2)
                  ELSE ie)

\* float of the unsigned text u
FloatUnsigned(neg, u) ==
    IF u = <<"n","a","n">>
    THEN [kind |-> "nan", neg |-> FALSE, m |-> <<>>, e |-> 0]
    ELSE IF u \in { <<"i","n","f">>, <<"i","n","f","i","n","i","t","y">> }
    THEN [kind |-> "inf", neg |-> neg, m |-> <<>>, e |-> 0]
    ELSE FloatFraction(neg, u, DigitsEnd(u, 1))

\* float of the stripped, lower-case text t without underscores
FloatSigned(t) ==
    FloatUnsigned(t # <<>> /\ Head(t) = "-",
                  IF t # <<>> /\ Head(t) \in {"+", "-"} THEN Tail(t) ELSE t)

\* an underscore is accepted only between two digits
UnderscoresOk(t) ==
    \A i \in 1..Len(t) :
        t[i] = "_" => /\ i > 1 /\ t[i - 1] \in Digits
                      /\ i < Len(t) /\ t[i + 1] \in Digits

NotUnderscore(c) == c # "_"

\* float of the stripped, lower-case text t
FloatGrouped(t) ==
    IF UnderscoresOk(t) THEN FloatSigned(SelectSeq(t, NotUnderscore)) ELSE FloatError

\* float(text): [kind |-> "nan" | "inf" | "zero" | "num" | "error", neg, m, e]
ParseFloat(text) == FloatGrouped(SeqMap(LowerChar, FloatStrip(text)))

\* the largest g with 10^g <= 2^b, for b from -1100 to 1100
Log10Floor(b) ==
    IF b >= 0 THEN (b * 30103) \div 100000
    ELSE 0 - (((0 - b) * 30103 + 99999) \div 100000)

\* m * 2^e \div 10^k for any e and k, and whether the division lost a remainder
DecimalShift(m, e, k) ==
    LET x == BigDivPow10(BigMulPow10(BigShl(m, Max(e, 0)), Max(0 - k, 0)),
                         Max(k, 0), FALSE)
        y == BigShr(x.q, Max(0 - e, 0))
    IN  [q |-> y.q, lost |-> x.lost \/ y.lost]

Sign(v) == IF v.neg THEN <<"-">> ELSE <<>>

\* d.dddddE+xx for the rounded digits d and the exponent e
SciText(v, d, e) ==
    Sign(v) \o <<d[1], ".">> \o Tail(d) \o <<"E">>
    \o (IF e < 0 THEN <<"-">> ELSE <<"+">>)
    \o Pad(IF e < 0 THEN 0 - e ELSE e, 2)

\* whether a mantissa head is rounded up (half to even), rem being the digits
\* dropped after it, half a half unit of the head, and lost telling that
\* more was dropped after rem
RoundsUp(head, rem, half, lost) ==
    rem > half \/ (rem = half /\ (lost \/ head % 2 = 1))

\* the rounded head with its power of ten: a head that rounds up to 10^6 is
\* 1.00000 with the next power
SciRounded(v, head, e10) ==
    IF head = 10^(SciDigits + 1) THEN SciText(v, Pad(10^SciDigits, SciDigits + 1), e10 + 1)
    ELSE SciText(v, Pad(head, SciDigits + 1), e10)

\* v by its leading digits n (seven of them when v < 10^(g+1), else eight)
SciHead(v, n, lost, g) ==
    IF n >= 10^(SciDigits + 2)
    THEN SciRounded(v, n \div 100
                       + (IF RoundsUp(n \div 100, n % 100, 50, lost) THEN 1 ELSE 0),
                    g + 1)
    ELSE SciRounded(v, n \div 10
                       + (IF RoundsUp(n \div 10, n % 10, 5, lost) THEN 1 ELSE 0),
                    g)

SciShifted(v, x, g) == SciHead(v, BigToInt(x.q), x.lost, g)

\* the finite v # 0, 10^g being at or below it and 10^(g+2) above it
SciNumber(v, g) == SciShifted(v, DecimalShift(v.m, v.e, g - SciDigits - 1), g)

\* f"{value:.5E}"
FormatSci(v) ==
    CASE v.kind = "nan" -> <<"N","A","N">>
      [] v.kind = "inf" -> Sign(v) \o <<"I","N","F">>
      [] v.kind = "zero" ->
            Sign(v) \o <<"0", ".">> \o [k \in 1..SciDigits |-> "0"] \o <<"E","+","0","0">>
      [] v.kind = "num" -> SciNumber(v, Log10Floor(BigBitLen(v.m) + v.e - 1))

\* the field, given the value v of float(field)
Reformatted(field, v) == IF v.kind = "error" THEN field ELSE FormatSci(v)

\* try: row[i] = f"{float(row[i]):.5E}" except (ValueError, IndexError): pass
Reformat(field) == Reformatted(field, ParseFloat(field))

\* TimeAParser.parse (the positions 12 and 13 are 0-based indices into row)
TimeAParse(timestamp, line) ==
    LET m == MatchHeaderData(MarkerTIMEA, line)
    IN  IF m = <<>> THEN <<>>
        ELSE LET header_fields == Fields(m[1])
                 data_fields   == Fields(m[2])
                 row == <<timestamp, MarkerTIMEA>> \o Tail(header_fields) \o data_fields
             IN  [i \in 1..Len(row) |->
                    IF i - 1 \in {TimeOffsetIndex, TimeOffsetStdIndex}
                    THEN Reformat(row[i]) ELSE row[i]]

----------------------------------------------------------------------------
(* FrequencyFilter (frequency_filter.py).  A dict is a function whose       *)
(* domain is its set of keys.  frequency_hz is the double nearest to a      *)
(* ratio <<num, den>>, num # 0 and den > 0.                                 *)

DictGet(d, k, default) == IF k \in DOMAIN d THEN d[k] ELSE default

DictSet(d, k, v) == [x \in DOMAIN d \cup {k} |-> IF x = k THEN v ELSE d[x]]

\* ZeroDivisionError: float division by zero (1.0 / 0.0)
ZeroDivisionError == <<"ZeroDivisionError">>

\* FrequencyFilter.__init__: int(1.0 / frequency_hz), v the magnitude of the
\* quotient; int() of an infinity raises OverflowError, of a NaN ValueError
Truncated(negative, v) ==
    IF v.kind = "raise" THEN ZeroDivisionError
    ELSE IF v.kind = "inf" THEN OverflowError
    ELSE IF v.kind = "nan" THEN ValueError
    ELSE IF negative THEN 0 - BigToInt(DoubleWhole(v)) ELSE BigToInt(DoubleWhole(v))

Magnitude(n) == IF n < 0 THEN 0 - n ELSE n

MessagesPerSecond(frequency_hz) ==
    Truncated(frequency_hz[1] < 0,
              Reciprocal(RatioToDouble(Magnitude(frequency_hz[1]), frequency_hz[2])))

\* FrequencyFilter.should_record: the two dicts afterwards and the value returned
ShouldRecord(counter, recorded, mps, message_type) ==
    LET seen == DictGet(counter, message_type, 0) + 1
        should_record == seen % Max(1, mps) = 1
        old == DictGet(recorded, message_type, 0)
    IN  [counter  |-> DictSet(counter, message_type, seen),
         recorded |-> DictSet(recorded, message_type,
                              IF should_record THEN old + 1 ELSE old),
         result   |-> TRUE]

\* FrequencyFilter.get_message_count
GetMessageCount(recorded, message_type) == DictGet(recorded, message_type, 0)

----------------------------------------------------------------------------
(* DurationLimiter (duration_limiter.py); time in whole seconds.            *)

\* a has_expired that needs the budget to be strictly exceeded
HasExpiredStrict(start, clock, max) ==
    IF start = <<>> THEN FALSE ELSE clock - start[1] > max

\* DurationLimiter.has_expired
HasExpired(start, clock, max) ==
    IF start = <<>> THEN FALSE ELSE clock - start[1] >= max

\* DurationLimiter.get_elapsed_seconds
GetElapsedSeconds(start, clock) ==
    IF start = <<>> THEN 0 ELSE clock - start[1]

\* DurationLimiter.get_remaining_seconds
GetRemainingSeconds(start, clock, max) ==
    IF start = <<>> THEN max ELSE Max(0, max - (clock - start[1]))

----------------------------------------------------------------------------
(* CSVWriterManager (csv_writer.py).  HEADERS comes from csv_headers.py,    *)
(* which names one channel per message type and the raw channel.            *)

HeaderTypes == <<"BESTXYZ", "TIME", "PSRDOP", "HWMONITOR", "GPGSV", "RAW">>

TypeSinks == {"BESTXYZ", "TIME", "PSRDOP", "HWMONITOR", "GPGSV"}

\* HEADERS[msg_type]: the column names of a channel, written as its first row
HeaderRow(t) == <<<<"T","i","m","e","s","t","a","m","p">>, <<t>>>>

\* the state __enter__ has built when the first n channels are open; every
\* channel starts with its header row
Entered(n) ==
    [files   |-> [t \in {HeaderTypes[k] : k \in 1..n} |-> "open"],
     rows    |-> [t \in {HeaderTypes[k] : k \in 1..n} |-> <<HeaderRow(t)>>],
     written |-> [t \in {HeaderTypes[k] : k \in 1..n} |-> 0]]

\* the rows of a channel after its header row
DataRows(t) == Tail(csv_rows[t])

\* CSVWriterManager.__exit__ when every close() succeeds
CloseAll(files) == [t \in DOMAIN files |-> "closed"]

\* CSVWriterManager.__exit__ when the close() of channel k raises (0: none does):
\* the loop has closed the channels before k, close() leaves channel k closed,
\* and the channels after k are never closed
Exited(files, k) ==
    IF k = 0 THEN CloseAll(files)
    ELSE [t \in DOMAIN files |->
            IF \E j \in 1..k : HeaderTypes[j] = t THEN "closed" ELSE files[t]]

\* the channels whose close() can raise, and 0 for a clean exit
ExitFaults == 0..Len(HeaderTypes)

\* a write_row that appends the row and leaves the channel's count alone
WriteRowNoCount(rows, written, msg_type, row) ==
    IF msg_type \notin DOMAIN rows
    THEN [rows |-> rows, written |-> written, ok |-> FALSE]
    ELSE [rows    |-> [rows EXCEPT ![msg_type] = Append(@, row)],
          written |-> written,
          ok      |-> TRUE]

\* a write_row that accepts any type and counts it
WriteRowAnyType(rows, written, msg_type, row) ==
    [rows    |-> IF msg_type \in DOMAIN rows
                 THEN [rows EXCEPT ![msg_type] = Append(@, row)] ELSE rows,
     written |-> DictSet(written, msg_type, DictGet(written, msg_type, 0) + 1),
     ok      |-> TRUE]

\* CSVWriterManager.write_row: the rows and counts afterwards and the value returned
WriteRow(rows, written, msg_type, row) ==
    IF msg_type \notin DOMAIN rows
    THEN [rows |-> rows, written |-> written, ok |-> FALSE]
    ELSE [rows    |-> [rows EXCEPT ![msg_type] = Append(@, row)],
          written |-> DictSet(written, msg_type, DictGet(written, msg_type, 0) + 1),
          ok      |-> TRUE]

----------------------------------------------------------------------------
(* Input lines.                                                             *)

\* "#BESTXYZA,C,7,1.5,F;FINESTEERING,1*a": well formed, week 7, second 1.5
LineBestXYZ ==
    <<"#","B","E","S","T","X","Y","Z","A",",","C",",","7",",","1",".","5",",","F",";",
      "F","I","N","E","S","T","E","E","R","I","N","G",",","1","*","a">>

\* "#TIMEA,C,8,43201.25,F;V*b": well formed, week 8, second 43201.25
LineTimeA ==
    <<"#","T","I","M","E","A",",","C",",","8",",","4","3","2","0","1",".","2","5",",",
      "F",";","V","*","b">>

\* "$GPGSV,2,1,03,01,40,083,46*7": well formed, no week/seconds pair
LineGPGSV ==
    <<"$","G","P","G","S","V",",","2",",","1",",","0","3",",","0","1",",","4","0",",",
      "0","8","3",",","4","6","*","7">>

\* "$GPGSV,2,1,03,01": the * terminator is missing
LineGPGSVNoStar ==
    <<"$","G","P","G","S","V",",","2",",","1",",","0","3",",","0","1">>

\* "#TIMEA,C;V*#BESTXYZA": a TIMEA message that also contains the BESTXYZA marker
LineTwoMarkers ==
    <<"#","T","I","M","E","A",",","C",";","V","*","#","B","E","S","T","X","Y","Z","A">>

\* "x": no marker, no week/seconds pair
LinePlain ==
    <<"x">>

\* " ": a blank line
LineBlank ==
    <<" ">>

CoreLines ==
    {LineBestXYZ, LineTimeA, LineGPGSV, LineGPGSVNoStar, LineTwoMarkers,
     LinePlain, LineBlank}

\* the sequences over S of length at most n
SeqsUpTo(S, n) == UNION {[1..k -> S] : k \in 0..n}

\* the text of a file made of the given lines, each ended by a newline
RECURSIVE FileOf(_)
FileOf(ls) == IF ls = <<>> THEN <<>> ELSE Head(ls) \o <<"\n">> \o FileOf(Tail(ls))

----------------------------------------------------------------------------
(* OEM719Parser (oem719_parser.py).                                         *)

DefaultOffset == 1000000
DefaultDuration == 30

\* a classification that tests the TIMEA marker before the BESTXYZA marker
ClassifyTimeFirst(line) ==
    IF Contains(line, MarkerTIMEA) THEN "TIMEA"
    ELSE IF Contains(line, MarkerBESTXYZA) THEN "BESTXYZA"
    ELSE IF Contains(line, MarkerPSRDOPA) THEN "PSRDOPA"
    ELSE IF Contains(line, MarkerHWMONITORA) THEN "HWMONITORA"
    ELSE IF Contains(line, MarkerGPGSV) THEN "GPGSV"
    ELSE "none"

\* the if/elif chain of parse(): the decoder the line is handed to
Classify(line) ==
    IF Contains(line, MarkerBESTXYZA) THEN "BESTXYZA"
    ELSE IF Contains(line, MarkerTIMEA) THEN "TIMEA"
    ELSE IF Contains(line, MarkerPSRDOPA) THEN "PSRDOPA"
    ELSE IF Contains(line, MarkerHWMONITORA) THEN "HWMONITORA"
    ELSE IF Contains(line, MarkerGPGSV) THEN "GPGSV"
    ELSE "none"

\* the message type name the _process_* method of a decoder uses for the
\* frequency filter and the sink
SinkOf(kind) ==
    CASE kind = "BESTXYZA" -> "BESTXYZ"
      [] kind = "TIMEA" -> "TIME"
      [] kind = "PSRDOPA" -> "PSRDOP"
      [] kind = "HWMONITORA" -> "HWMONITOR"
      [] kind = "GPGSV" -> "GPGSV"

\* the row the _process_* method of a decoder gets from its parser; for GPGSV
\* _process_gpgsv hands parse_multi the one line in line_buffer
Decode(kind, timestamp, line) ==
    CASE kind = "BESTXYZA" -> BestXYZParse(timestamp, line)
      [] kind = "TIMEA" -> TimeAParse(timestamp, line)
      [] kind = "PSRDOPA" -> PSRDOPAParse(timestamp, line)
      [] kind = "HWMONITORA" -> HWMonitorAParse(timestamp, line)
      [] kind = "GPGSV" -> IF ParseMultiRaises(<<line>>) THEN ValueError
                           ELSE GPGSVParseMulti(timestamp, <<line>>).row
      [] OTHER -> <<>>

\* whether the _process_* method of the line's decoder is left by an error of the
\* parser (parse_multi, line 163)
DecodeRaises(line) == Classify(line) = "GPGSV" /\ ParseMultiRaises(<<line>>)

\* the RAW row of a line: [timestamp, f'"{line}\n"']
RawRow(timestamp, line) == <<timestamp, <<"\"">> \o line \o <<"\n", "\"">> >>

\* a filter that is consulted for every classified line, decoded or not
AskedAlways(kind, row) ==
    IF kind # "none"
    THEN [ShouldRecord(message_counter, recorded_count, messages_per_second,
                       SinkOf(kind)) EXCEPT !.result = row # <<>>]
    ELSE [counter |-> message_counter, recorded |-> recorded_count, result |-> FALSE]

\* if row and self.frequency_filter.should_record(type): the filter afterwards
Asked(kind, row) ==
    IF row # <<>>
    THEN ShouldRecord(message_counter, recorded_count, messages_per_second, SinkOf(kind))
    ELSE [counter |-> message_counter, recorded |-> recorded_count, result |-> FALSE]

\* a guard that is started again at every line
ArmedAgain(start, clock) == <<clock>>

\* if not self.duration_limiter.is_started(): self.duration_limiter.start()
Armed(start, clock) == IF start = <<>> THEN <<clock>> ELSE start

\* csv_manager.write_row(type, row) of a _process_* method, f being the filter's answer
Typed(kind, row, f) ==
    IF f.result THEN WriteRow(csv_rows, messages_written, SinkOf(kind), row)
    ELSE [rows |-> csv_rows, written |-> messages_written, ok |-> FALSE]

\* a routing that consults the guard before the RAW write and skips the write
\* once the budget is reached
RoutedGuardFirst(line, ex, timestamp, kind, row, f, typed) ==
    [ex |-> ex, timestamp |-> timestamp, kind |-> kind, row |-> row, f |-> f,
     typed |-> typed,
     raw |-> IF HasExpired(Armed(start_time, now), now, max_duration)
             THEN [rows |-> typed.rows, written |-> typed.written, ok |-> FALSE]
             ELSE WriteRow(typed.rows, typed.written, "RAW", RawRow(timestamp, line))]

\* csv_manager.write_row('RAW', [timestamp, f'"{line}\n"'])
Routed(line, ex, timestamp, kind, row, f, typed) ==
    [ex |-> ex, timestamp |-> timestamp, kind |-> kind, row |-> row, f |-> f,
     typed |-> typed,
     raw |-> WriteRow(typed.rows, typed.written, "RAW", RawRow(timestamp, line))]

Filtered(line, ex, timestamp, kind, row, f) ==
    Routed(line, ex, timestamp, kind, row, f, Typed(kind, row, f))

Decoded(line, ex, timestamp, kind, row) ==
    Filtered(line, ex, timestamp, kind, row, Asked(kind, row))

Classified(line, ex, timestamp, kind) ==
    Decoded(line, ex, timestamp, kind, Decode(kind, timestamp, line))

\* timestamp = extract_from_line(line); if not timestamp: get_current_timestamp()
Stamped(line, ex, clock) ==
    Classified(line, ex,
               IF ex.timestamp = <<>> THEN GetCurrentTimestamp(ex.last, clock)
               ELSE ex.timestamp,
               Classify(line))

\* one iteration of the loop of parse() on a line, up to the duration check:
\* every value the iteration computes but the arming of the guard; clock is the
\* wall clock when the timestamp is resolved
Iteration(line, clock) ==
    Stamped(line, ExtractFromLine(line, last_timestamp, clock), clock)

NoIter ==
    [line |-> <<>>, timestamp |-> <<>>, derived |-> FALSE, kind |-> "none",
     row |-> <<>>, wrote |-> FALSE, prev_last |-> <<>>, failed |-> "no"]

\* no decoder has been called directly
NoCall == [op |-> "none"]

----------------------------------------------------------------------------
(* The state machine of one OEM719Parser.parse() call.                      *)

MaxLines == 2          \* lines of the input file after its first line
MaxBudget == 1         \* largest max_duration_seconds configured
MaxTick == 1           \* most seconds that pass during one loop iteration
ClockStart == 43199    \* the wall clock when parse() is called

\* the first line of the input file, which offset alignment discards
LeadLine == <<"h">>

\* sampling frequencies, as ratios: 1 Hz, 5 Hz and 0.5 Hz
Frequencies == {<<1, 1>>, <<5, 1>>, <<1, 2>>}

\* the state after OEM719Parser.__init__, for a given input and configuration
Constructed(exists, text, offset, frequency_hz, budget) ==
    /\ file_exists = exists
    /\ content = text
    /\ offset_bytes = offset
    /\ pos = 0
    /\ input_open = FALSE
    /\ has_lock = FALSE
    /\ pc = "Idle"
    /\ line_count = 0
    /\ last_timestamp = <<>>
    /\ ts_message_count = 0
    /\ messages_per_second = MessagesPerSecond(frequency_hz)
    /\ message_counter = <<>>
    /\ recorded_count = <<>>
    /\ admitted = [t \in TypeSinks |-> 0]
    /\ max_duration = budget
    /\ start_time = <<>>
    /\ now = ClockStart
    /\ csv_files = <<>>
    /\ csv_rows = <<>>
    /\ messages_written = <<>>
    /\ dir_exists = FALSE
    /\ iter = NoIter
    /\ call = NoCall

Init ==
    \/ \E body \in SeqsUpTo(CoreLines, MaxLines), offset \in {0, DefaultOffset},
          f \in Frequencies, budget \in 0..MaxBudget :
          Constructed(TRUE, FileOf(<<LeadLine>> \o body), offset, f, budget)
    \/ Constructed(FALSE, <<>>, DefaultOffset, <<1, 1>>, DefaultDuration)

\* an opening that creates the output directory before it fails
OpenInputCreating ==
    /\ pc = "Idle"
    /\ IF file_exists
       THEN /\ input_open' = TRUE
            /\ pos' = 0
            /\ pc' = "Seeking"
            /\ UNCHANGED dir_exists
       ELSE /\ pc' = "Aborted"
            /\ dir_exists' = TRUE
            /\ UNCHANGED <<input_open, pos>>
    /\ UNCHANGED <<file_exists, content, offset_bytes, has_lock, line_count,
                   last_timestamp, ts_message_count, messages_per_second,
                   message_counter, recorded_count, admitted, max_duration,
                   start_time, now, csv_files, csv_rows, messages_written,
                   iter, call>>

\* with LogReader(...) as reader: LogReader.__enter__
OpenInput ==
    /\ pc = "Idle"
    /\ IF file_exists
       THEN /\ input_open' = TRUE
            /\ pos' = 0
            /\ pc' = "Seeking"
       ELSE /\ pc' = "Aborted"
            /\ UNCHANGED <<input_open, pos>>
    /\ UNCHANGED <<file_exists, content, offset_bytes, has_lock, line_count,
                   last_timestamp, ts_message_count, messages_per_second,
                   message_counter, recorded_count, admitted, max_duration,
                   start_time, now, csv_files, csv_rows, messages_written,
                   dir_exists, iter, call>>

Sought(r) == pos' = r.pos /\ has_lock' = r.has_lock

\* has_lock = reader.seek_to_start_position()
Seek ==
    /\ pc = "Seeking"
    /\ Sought(SeekToStartPosition(content, offset_bytes))
    /\ pc' = "Opening"
    /\ UNCHANGED <<file_exists, content, offset_bytes, input_open, line_count,
                   last_timestamp, ts_message_count, messages_per_second,
                   message_counter, recorded_count, admitted, max_duration,
                   start_time, now, csv_files, csv_rows, messages_written,
                   dir_exists, iter, call>>

\* CSVWriterManager.__init__ raises in os.makedirs; LogReader.__exit__ runs
MakeDirsFails ==
    /\ pc = "Opening"
    /\ ~dir_exists
    /\ pc' = "Aborted"
    /\ input_open' = FALSE
    /\ UNCHANGED <<file_exists, content, offset_bytes, pos, has_lock, line_count,
                   last_timestamp, ts_message_count, messages_per_second,
                   message_counter, recorded_count, admitted, max_duration,
                   start_time, now, csv_files, csv_rows, messages_written,
                   dir_exists, iter, call>>

\* CSVWriterManager.__enter__ raises when it opens the k-th channel: the with
\* statement never calls __exit__ for a manager whose __enter__ raised;
\* LogReader.__exit__ runs
OpenSinksFails ==
    /\ pc = "Opening"
    /\ \E k \in 1..Len(HeaderTypes) :
          /\ csv_files' = Entered(k - 1).files
          /\ csv_rows' = Entered(k - 1).rows
          /\ messages_written' = Entered(k - 1).written
    /\ dir_exists' = TRUE
    /\ pc' = "Aborted"
    /\ input_open' = FALSE
    /\ UNCHANGED <<file_exists, content, offset_bytes, pos, has_lock, line_count,
                   last_timestamp, ts_message_count, messages_per_second,
                   message_counter, recorded_count, admitted, max_duration,
                   start_time, now, iter, call>>

\* with CSVWriterManager(self.output_dir) as csv_manager: __init__ and __enter__
OpenSinks ==
    /\ pc = "Opening"
    /\ csv_files' = Entered(Len(HeaderTypes)).files
    /\ csv_rows' = Entered(Len(HeaderTypes)).rows
    /\ messages_written' = Entered(Len(HeaderTypes)).written
    /\ dir_exists' = TRUE
    /\ pc' = "Running"
    /\ UNCHANGED <<file_exists, content, offset_bytes, pos, input_open, has_lock,
                   line_count, last_timestamp, ts_message_count,
                   messages_per_second, message_counter, recorded_count, admitted,
                   max_duration, start_time, now, iter, call>>

\* the readings of the wall clock from t on that are at most MaxTick seconds
\* after the reading the iteration began with
Readings(t) == t..(now + MaxTick)

\* what every iteration that reads the line r.line does before it writes a row;
\* started is the guard after lines 88-89
Processed(r, it, failed, started) ==
    /\ pos' = r.pos
    /\ line_count' = line_count + 1
    /\ last_timestamp' = it.ex.last
    /\ ts_message_count' = IF it.ex.derived THEN ts_message_count + 1
                           ELSE ts_message_count
    /\ start_time' = started
    /\ message_counter' = it.f.counter
    /\ recorded_count' = it.f.recorded
    /\ admitted' = IF it.f.result
                   THEN [admitted EXCEPT ![SinkOf(it.kind)] = @ + 1]
                   ELSE admitted
    /\ iter' = [line |-> r.line, timestamp |-> it.timestamp,
                derived |-> it.ex.derived, kind |-> it.kind, row |-> it.row,
                wrote |-> it.typed.ok /\ failed # "type",
                prev_last |-> last_timestamp, failed |-> failed]

\* the duration check that ends an iteration, the wall clock reading clock
CheckDuration(started, clock) ==
    /\ now' = clock
    /\ IF HasExpired(started, clock, max_duration)
       THEN /\ \E k \in ExitFaults :
                  /\ csv_files' = Exited(csv_files, k)
                  /\ pc' = IF k = 0 THEN "Expired" ELSE "Aborted"
            /\ input_open' = FALSE
       ELSE /\ pc' = "Running"
            /\ UNCHANGED <<csv_files, input_open>>

\* the iteration from duration_limiter.start() on: t1 is the clock when the
\* timestamp was resolved, t3 the clock start() reads, t4 the clock has_expired() reads
LineDone(r, it, t1) ==
    /\ csv_rows' = it.raw.rows
    /\ messages_written' = it.raw.written
    /\ \E t3 \in Readings(t1) :
          /\ Processed(r, it, "no", Armed(start_time, t3))
          /\ \E t4 \in Readings(t3) : CheckDuration(Armed(start_time, t3), t4)

\* whether extract_from_line raises on the line (int() at line 35, or line 64,
\* outside the try)
Raises(line) ==
    ExtractFromLine(line, last_timestamp, now).timestamp \in {OverflowError, ValueError}

\* the iteration that extract_from_line leaves with an error (line 83): the line
\* was counted and nothing else was done; both with statements unwind,
\* CSVWriterManager.__exit__ and LogReader.__exit__ run
StampRaised(r) ==
    /\ pos' = r.pos
    /\ line_count' = line_count + 1
    /\ iter' = [line |-> r.line, timestamp |-> <<>>, derived |-> FALSE,
                kind |-> "none", row |-> <<>>, wrote |-> FALSE,
                prev_last |-> last_timestamp, failed |-> "stamp"]
    /\ pc' = "Aborted"
    /\ \E k \in ExitFaults : csv_files' = Exited(csv_files, k)
    /\ input_open' = FALSE
    /\ UNCHANGED <<last_timestamp, ts_message_count, start_time, message_counter,
                   recorded_count, admitted, now, csv_rows, messages_written>>

\* the iteration that the decoder leaves with an error (line 107): the line was
\* counted, its timestamp resolved and the guard armed; the filter was not
\* asked and no row was written; both with statements unwind
DecodeRaised(r, ex, t1) ==
    /\ pos' = r.pos
    /\ line_count' = line_count + 1
    /\ last_timestamp' = ex.last
    /\ ts_message_count' = IF ex.derived THEN ts_message_count + 1
                           ELSE ts_message_count
    /\ \E t3 \in Readings(t1) :
          /\ start_time' = Armed(start_time, t3)
          /\ now' = t3
    /\ iter' = [line |-> r.line,
                timestamp |-> IF ex.timestamp = <<>>
                              THEN GetCurrentTimestamp(ex.last, t1)
                              ELSE ex.timestamp,
                derived |-> ex.derived, kind |-> Classify(r.line), row |-> <<>>,
                wrote |-> FALSE, prev_last |-> last_timestamp, failed |-> "decode"]
    /\ pc' = "Aborted"
    /\ \E k \in ExitFaults : csv_files' = Exited(csv_files, k)
    /\ input_open' = FALSE
    /\ UNCHANGED <<message_counter, recorded_count, admitted, csv_rows,
                   messages_written>>

LineRead(r) ==
    /\ ~r.eof
    /\ IF Raises(r.line) THEN StampRaised(r)
       ELSE IF DecodeRaises(r.line)
       THEN \E t1 \in Readings(now) :
               DecodeRaised(r, ExtractFromLine(r.line, last_timestamp, t1), t1)
       ELSE \E t1 \in Readings(now) : LineDone(r, Iteration(r.line, t1), t1)

\* one iteration of for line in reader.read_lines(), with the duration check that
\* ends it.  The wall clock is read where the timestamp falls back on it (line
\* 85, or the except branch of _format_gps_time), by start() (line 89) and by
\* has_expired() (line 113); time passes between the readings, at most MaxTick
\* seconds in one iteration
ProcessLine ==
    /\ pc = "Running"
    /\ LineRead(ReadLines(content, pos))
    /\ UNCHANGED <<file_exists, content, offset_bytes, has_lock,
                   messages_per_second, max_duration, dir_exists, call>>

TypeFailed(r, it, t1) ==
    /\ it.f.result
    /\ \E t3 \in Readings(t1) :
          /\ Processed(r, it, "type", Armed(start_time, t3))
          /\ now' = t3

TypeFailedAt(r) ==
    /\ ~r.eof
    /\ ~Raises(r.line)
    /\ ~DecodeRaises(r.line)
    /\ \E t1 \in Readings(now) : TypeFailed(r, Iteration(r.line, t1), t1)

\* the iteration's write_row to the type sink raises (an I/O error): both with
\* statements unwind, CSVWriterManager.__exit__ and LogReader.__exit__ run
TypeWriteFails ==
    /\ pc = "Running"
    /\ TypeFailedAt(ReadLines(content, pos))
    /\ pc' = "Aborted"
    /\ \E k \in ExitFaults : csv_files' = Exited(csv_files, k)
    /\ input_open' = FALSE
    /\ UNCHANGED <<file_exists, content, offset_bytes, has_lock,
                   messages_per_second, max_duration, dir_exists, csv_rows,
                   messages_written, call>>

RawFailed(r, it, t1) ==
    /\ csv_rows' = it.typed.rows
    /\ messages_written' = it.typed.written
    /\ \E t3 \in Readings(t1) :
          /\ Processed(r, it, "raw", Armed(start_time, t3))
          /\ now' = t3

RawFailedAt(r) ==
    /\ ~r.eof
    /\ ~Raises(r.line)
    /\ ~DecodeRaises(r.line)
    /\ \E t1 \in Readings(now) : RawFailed(r, Iteration(r.line, t1), t1)

\* the iteration's write_row to the RAW sink raises (an I/O error)
RawWriteFails ==
    /\ pc = "Running"
    /\ RawFailedAt(ReadLines(content, pos))
    /\ pc' = "Aborted"
    /\ \E k \in ExitFaults : csv_files' = Exited(csv_files, k)
    /\ input_open' = FALSE
    /\ UNCHANGED <<file_exists, content, offset_bytes, has_lock,
                   messages_per_second, max_duration, dir_exists, call>>

AtEnd(r) == r.eof /\ pos' = r.pos

\* read_lines() reaches the end of the file: the loop ends, both with statements
\* exit; a close() that raises in CSVWriterManager.__exit__ leaves parse() as an error
EndOfInput ==
    /\ pc = "Running"
    /\ AtEnd(ReadLines(content, pos))
    /\ \E k \in ExitFaults :
          /\ csv_files' = Exited(csv_files, k)
          /\ pc' = IF k = 0 THEN "Completed" ELSE "Aborted"
    /\ input_open' = FALSE
    /\ UNCHANGED <<file_exists, content, offset_bytes, has_lock, line_count,
                   last_timestamp, ts_message_count, messages_per_second,
                   message_counter, recorded_count, admitted, max_duration,
                   start_time, now, csv_rows, messages_written, dir_exists, iter, call>>

Next ==
    \/ OpenInput
    \/ Seek
    \/ MakeDirsFails
    \/ OpenSinksFails
    \/ OpenSinks
    \/ ProcessLine
    \/ TypeWriteFails
    \/ RawWriteFails
    \/ EndOfInput

Spec == Init /\ [][Next]_vars

----------------------------------------------------------------------------
(* The same machine started on short files at every small offset, with the  *)
(* default duration, to exercise seek_to_start_position.                    *)

MaxSeekLines == 3      \* lines of a short input file
MaxOffset == 4         \* largest offset_bytes tried on a short file

SeekLines == {LinePlain, LineBlank, LineBestXYZ}

\* the file without the newline that ends its last line
Unterminated(text) == IF text = <<>> THEN text ELSE SubSeq(text, 1, Len(text) - 1)

InitSeek ==
    \E ls \in SeqsUpTo(SeekLines, MaxSeekLines), offset \in 0..MaxOffset,
       text \in {"terminated", "unterminated"} :
       Constructed(TRUE,
                   IF text = "terminated" THEN FileOf(ls) ELSE Unterminated(FileOf(ls)),
                   offset, <<1, 1>>, DefaultDuration)

SpecSeek == InitSeek /\ [][Next]_vars

----------------------------------------------------------------------------
(* The same machine on lines whose week is out of range: beyond the last    *)
(* date a datetime holds, and beyond the largest double.                    *)

\* the digits of the least week that is one digit followed by zeros and whose
\* seconds since the epoch, week * 604800, are too large to convert to a float
HugeWeekDigits == 303

\* "#TIMEA,C,3000000,43201.25,F;V*b": the date is after 9999-12-31
LineWeekLate ==
    <<"#","T","I","M","E","A",",","C",",","3","0","0","0","0","0","0",",",
      "4","3","2","0","1",".","2","5",",","F",";","V","*","b">>

\* "#TIMEA,C,3000...000,43201.25,F;V*b": the week is 3 * 10^302
LineWeekHuge ==
    <<"#","T","I","M","E","A",",","C",",","3">> \o [i \in 1..(HugeWeekDigits - 1) |-> "0"]
    \o <<",","4","3","2","0","1",".","2","5",",","F",";","V","*","b">>

\* "#TIMEA,C,000...0008,43201.25,F;V*b": the week has MaxStrDigits + 1 digits
LineWeekRefused ==
    <<"#","T","I","M","E","A",",","C",",">> \o [i \in 1..MaxStrDigits |-> "0"]
    \o <<"8",",","4","3","2","0","1",".","2","5",",","F",";","V","*","b">>

\* "$GPGSV,1,000...000,03,a*c": the sentence number has MaxStrDigits + 1 digits
LineSentenceRefused ==
    MarkerGPGSV \o <<",","1",",">> \o [i \in 1..(MaxStrDigits + 1) |-> "0"]
    \o <<",","0","3",",","a","*","c">>

WeekLines == {LineTimeA, LineWeekLate, LineWeekHuge, LineWeekRefused, LineSentenceRefused}

InitWeek ==
    \E body \in SeqsUpTo(WeekLines, MaxLines), budget \in 0..MaxBudget :
        Constructed(TRUE, FileOf(<<LeadLine>> \o body), 0, <<1, 1>>, budget)

SpecWeek == InitWeek /\ [][Next]_vars

----------------------------------------------------------------------------
(* Properties.                                                              *)

Finished == pc \in {"Completed", "Expired", "Aborted"}

\* the cursor after the offset-alignment step of seek_to_start_position alone
AlignedPos == ReadLine(content, offset_bytes).pos

\* every non-blank stripped line of the text c from cursor p on, in order
RECURSIVE LinesFrom(_, _)
LinesFrom(c, p) ==
    IF p >= Len(c) THEN <<>>
    ELSE IF Strip(ReadLine(c, p).line) = <<>> THEN LinesFrom(c, ReadLine(c, p).pos)
    ELSE <<Strip(ReadLine(c, p).line)>> \o LinesFrom(c, ReadLine(c, p).pos)

\* the line a RAW row quotes
RawLine(row) == SubSeq(row[2], 2, Len(row[2]) - 2)

RawLines == [i \in 1..Len(DataRows("RAW")) |-> RawLine(DataRows("RAW")[i])]

\* C1: during parse(), every line the reader has yielded so far is in the RAW
\* sink exactly once and in input order, quoted with its newline, whatever its
\* classification, decoding or admission, unless a write to a sink failed; the
\* RAW count equals the number of lines processed, and a run that ends by
\* exhaustion has written every line.
C1_RawReceivesEveryLine ==
    /\ (line_count > 0 /\ iter.failed \notin {"type", "raw"}) =>
          /\ messages_written["RAW"] = line_count
          /\ Len(DataRows("RAW")) = line_count
          /\ RawLines = SubSeq(LinesFrom(content, AlignedPos), 1, line_count)
          /\ \A i \in 1..line_count :
                DataRows("RAW")[i][2] = <<"\"">> \o RawLines[i] \o <<"\n", "\"">>
    /\ (pc = "Completed" => line_count = Len(LinesFrom(content, AlignedPos)))

\* two lines have been processed, one with no marker and one that its decoder
\* refused, and both are in the RAW sink
RawHasBothLines ==
    /\ pc = "Running"
    /\ line_count = 2
    /\ RawLines = <<LinePlain, LineGPGSVNoStar>>
    /\ messages_written["RAW"] = 2

\* the run was ended by the error of extract_from_line on a line that the
\* reader had yielded and that no sink received
StampAbort ==
    /\ pc = "Aborted"
    /\ iter.failed = "stamp"
    /\ iter.line = LineWeekHuge
    /\ Len(DataRows("RAW")) = line_count - 1

\* the run was ended by int() refusing the week of a line that the reader had
\* yielded and that no sink received
StampRefused ==
    /\ pc = "Aborted"
    /\ iter.failed = "stamp"
    /\ iter.line = LineWeekRefused
    /\ Len(DataRows("RAW")) = line_count - 1

\* the run was ended by the error of parse_multi on a $GPGSV line that the
\* reader had yielded: the guard is armed and no sink received the line
DecodeAbort ==
    /\ pc = "Aborted"
    /\ iter.failed = "decode"
    /\ iter.line = LineSentenceRefused
    /\ start_time # <<>>
    /\ Len(DataRows("RAW")) = line_count - 1
    /\ Len(DataRows("GPGSV")) = 0

\* C2: a $GPGSV line followed by physically consecutive $GPGSV lines is pulled
\* from the reader as one group: once the orchestrator has processed a $GPGSV
\* line, the line at the cursor is not a $GPGSV continuation left to be
\* processed as a line of its own.
C2_GroupConsumedWhole ==
    (pc = "Running" /\ iter.failed = "no" /\ StartsWith(iter.line, MarkerGPGSV)) =>
        ~StartsWith(Strip(ReadLine(content, pos).line), MarkerGPGSV)

\* C3: under the pass-all policy every should_record call admits the record and
\* get_message_count(type) equals the number of records of the type admitted.
C3_CountEqualsAdmitted ==
    \A t \in TypeSinks :
        /\ admitted[t] = DictGet(message_counter, t, 0)
        /\ GetMessageCount(recorded_count, t) = admitted[t]

\* C4: seek_to_start_position consumes no input during lock detection: once it
\* has returned, the cursor is where the offset-alignment step alone puts it,
\* whether the lock marker was found, was absent, or the scan met the end of file.
C4_SeekLeavesAlignedCursor ==
    pc = "Opening" => pos = AlignedPos

\* the lock marker was found in a line after the first one scanned, so the scan
\* has read past the aligned position
C4_Witness ==
    /\ pc = "Opening"
    /\ has_lock
    /\ pos < Len(content)
    /\ ~Contains(ReadLine(content, pos).line, LockMarker)

\* the seconds between the arming of the guard and the clock
Elapsed == now - start_time[1]

\* C5: at the duration check that ends an iteration the loop stops (Running ->
\* Expired) exactly when the time elapsed since the guard was armed is at least
\* the configured maximum; a run that ends by exhausting its input never had the
\* budget reached at a check; once Expired no further line is read and
\* get_remaining_seconds() is 0.
C5_StopsOnceBudgetReached ==
    /\ [][(pc = "Running" /\ pc' \in {"Running", "Expired"}) =>
            (pc' = "Expired" <=> now' - start_time'[1] >= max_duration)]_vars
    /\ [][pc = "Expired" => (pos' = pos /\ line_count' = line_count)]_vars
    /\ []((pc = "Completed" /\ start_time # <<>>) => Elapsed < max_duration)
    /\ [](pc = "Expired" =>
            /\ start_time # <<>>
            /\ Elapsed >= max_duration
            /\ GetRemainingSeconds(start_time, now, max_duration) = 0)

\* the run expired with input left, the elapsed time being exactly the budget
C5_Witness ==
    /\ pc = "Expired"
    /\ max_duration > 0
    /\ Elapsed = max_duration
    /\ ~ReadLines(content, pos).eof

\* C6: on every exit path of parse() the input handle is closed and no sink file
\* handle that was opened remains open.
C6_EverythingReleased ==
    Finished =>
        /\ ~input_open
        /\ \A t \in DOMAIN csv_files : csv_files[t] = "closed"

\* whether a line holds a week/seconds pair
HasPair(line) == SearchWeekSeconds(line, 1) # <<>>

\* the timestamp of the RAW row i
RawStamp(i) == DataRows("RAW")[i][1]

\* the renderings of the wall clock since parse() was called
ClockStamps == {Render(ClockInstant(n)) : n \in ClockStart..now}

\* the index of the last RAW row before row i whose line has a pair, 0 if none
LastPair(i) ==
    LET before == {j \in 1..(i - 1) : HasPair(RawLines[j])}
    IN  IF before = {} THEN 0 ELSE CHOOSE j \in before : \A k \in before : k <= j

\* C7: the timestamp attached to a line with no week/seconds pair is the one
\* derived from the most recent earlier line that had a pair, or the wall-clock
\* time if no line had one; last_timestamp changes only in an iteration whose
\* line has a pair, and then becomes that line's timestamp.
C7_CarryForward ==
    /\ []("RAW" \in DOMAIN csv_rows =>
            \A i \in 1..Len(DataRows("RAW")) :
                ~HasPair(RawLines[i]) =>
                    IF LastPair(i) = 0
                    THEN RawStamp(i) \in ClockStamps
                    ELSE RawStamp(i) = RawStamp(LastPair(i)))
    /\ [][last_timestamp' # last_timestamp =>
            /\ line_count' = line_count + 1
            /\ HasPair(iter'.line)
            /\ last_timestamp' = iter'.timestamp]_vars
    /\ []((line_count > 0 /\ HasPair(iter.line)) => last_timestamp = iter.timestamp)

\* a line without a pair was processed right after one with a pair and carries
\* the derived timestamp of that line
C7_Witness ==
    /\ pc = "Running"
    /\ Len(DataRows("RAW")) = 2
    /\ HasPair(RawLines[1])
    /\ ~HasPair(RawLines[2])
    /\ RawStamp(2) = RawStamp(1)
    /\ RawStamp(2) \notin ClockStamps
    /\ last_timestamp = RawStamp(1)

\* the instant a line's week/seconds pair denotes
PairInstant(m) == GpsInstant(Timedelta(TotalSeconds(BigFromDigits(m[1]), PairSeconds(m))))

\* a slice that trims the microseconds to milliseconds and keeps the meridiem
TrimToMillis(s) == SubSeq(s, 1, Len(s) - 6) \o SubSeq(s, Len(s) - 2, Len(s))

\* C8: for a line with a week/seconds pair the resolved timestamp is the GPS epoch
\* plus week*604800 + seconds rendered as MM/DD/YYYY hh:mm:ss.fff AM/PM: three
\* fraction digits, a 12-hour clock and the meridiem at the end.
C8_MillisecondsAndMeridiem ==
    (line_count > 0 /\ HasPair(iter.line)) =>
        iter.timestamp = TrimToMillis(StrfTime(PairInstant(SearchWeekSeconds(iter.line, 1))))

\* whether a line has the shape the decoder of its marker expects
WellShaped(kind, line) ==
    CASE kind = "BESTXYZA" -> MatchHeaderData(MarkerBESTXYZA, line) # <<>>
      [] kind = "TIMEA" -> MatchHeaderData(MarkerTIMEA, line) # <<>>
      [] kind = "PSRDOPA" -> MatchHeaderData(MarkerPSRDOPA, line) # <<>>
      [] kind = "HWMONITORA" -> MatchHeaderData(MarkerHWMONITORA, line) # <<>>
      [] kind = "GPGSV" -> MatchGPGSV(line) # <<>>
      [] OTHER -> FALSE

\* C9: a line that contains a type's marker but has not the type's shape (its *
\* terminator is missing, say) gives no record: nothing is written to the type's
\* sink, the RAW sink still receives the line, and the run goes on.
C9_DecodeMissWritesNothing ==
    (line_count > 0 /\ iter.failed = "no" /\ iter.kind # "none"
        /\ ~WellShaped(iter.kind, iter.line)) =>
        /\ iter.row = <<>>
        /\ ~iter.wrote
        /\ RawLines[line_count] = iter.line

\* the markers in priority order, each with the sink of its decoder
Priority ==
    << <<MarkerBESTXYZA, "BESTXYZ">>, <<MarkerTIMEA, "TIME">>,
       <<MarkerPSRDOPA, "PSRDOP">>, <<MarkerHWMONITORA, "HWMONITOR">>,
       <<MarkerGPGSV, "GPGSV">> >>

\* the sinks whose count the step raises
Raised == {t \in TypeSinks : messages_written'[t] > messages_written[t]}

\* C10: a processed line adds at most one record in all to the five type sinks,
\* and only to the sink of the first marker, in the order BESTXYZA, TIMEA,
\* PSRDOPA, HWMONITORA, GPGSV, that the line contains; a line with no marker
\* adds none.
C10_FirstMarkerWins ==
    [][(pc = "Running" /\ line_count' = line_count + 1) =>
          /\ Cardinality(Raised) <= 1
          /\ \A t \in Raised : messages_written'[t] = messages_written[t] + 1
          /\ \A k \in 1..Len(Priority) :
                Priority[k][2] \in Raised =>
                    /\ Contains(iter'.line, Priority[k][1])
                    /\ \A j \in 1..(k - 1) : ~Contains(iter'.line, Priority[j][1])]_vars

\* a line holding two markers was processed: it went to the decoder of the first
\* in priority, which refused it, and no type sink got a record
C10_Witness ==
    /\ pc = "Running"
    /\ iter.line = LineTwoMarkers
    /\ iter.kind = "BESTXYZA"
    /\ ~iter.wrote
    /\ \A t \in TypeSinks : messages_written[t] = 0

(***************************************************************************)
(* The decoders called directly: one call, from the state after            *)
(* construction, on a line assembled from header and data fields.           *)
(***************************************************************************)

MaxHeaderFields == 2   \* header fields of an assembled line
MaxDataFields == 3     \* data fields of an assembled BESTXYZA line

\* str.join
RECURSIVE Join(_, _)
Join(fields, sep) ==
    IF fields = <<>> THEN <<>>
    ELSE IF Len(fields) = 1 THEN fields[1]
    ELSE fields[1] \o sep \o Join(Tail(fields), sep)

\* the non-empty sequences over S of at most n elements
FieldLists(S, n) == SeqsUpTo(S, n) \ {<<>>}

\* the line <marker>,<header>;<data>*<checksum>
Assemble(marker, header, data) ==
    marker \o <<",">> \o Join(header, <<",">>) \o <<";">> \o Join(data, <<",">>)
        \o <<"*", "a">>

\* the timestamp handed to a decoder
StampArg == <<"T">>

HeaderFieldValues == {<<"C">>, <<"7">>}

BestXYZDataValues == {<<"F">>, <<"1">>, <<"\"", "\"">>}

\* the UNCHANGED of a direct decoder call: the parser's state and the files
DecoderFrame ==
    UNCHANGED <<file_exists, content, offset_bytes, pos, input_open, has_lock,
                pc, line_count, last_timestamp, ts_message_count,
                messages_per_second, message_counter, recorded_count, admitted,
                max_duration, start_time, now, csv_files, csv_rows,
                messages_written, dir_exists, iter>>

\* BestXYZParser().parse(timestamp, line)
CallBestXYZ ==
    /\ call = NoCall
    /\ \E header \in FieldLists(HeaderFieldValues, MaxHeaderFields),
          data \in FieldLists(BestXYZDataValues, MaxDataFields) :
          call' = [op |-> "BestXYZParser.parse", timestamp |-> StampArg,
                   header |-> header, data |-> data,
                   row |-> BestXYZParse(StampArg,
                                        Assemble(MarkerBESTXYZA, header, data))]
    /\ DecoderFrame

\* a data field with the doubled quote collapsed to the empty string
Collapsed(f) == IF f = <<"\"", "\"">> THEN <<>> ELSE f

\* C11: for every well-formed #BESTXYZA line the record is the timestamp and the
\* marker followed by all the header fields and then all the data fields (a
\* doubled quote collapsed to empty), so its length is 2 + headerFieldCount +
\* dataFieldCount.
C11_AllHeaderAndDataFields ==
    call.op = "BestXYZParser.parse" =>
        /\ call.row = <<call.timestamp, MarkerBESTXYZA>> \o call.header
                        \o [i \in 1..Len(call.data) |-> Collapsed(call.data[i])]
        /\ Len(call.row) = 2 + Len(call.header) + Len(call.data)

MaxPsrdopData == 7     \* data fields of an assembled PSRDOPA line

\* n data fields, each naming its place: "1", "2", ...
Numbered(n) == [i \in 1..n |-> <<DigitChar(i)>>]

\* PSRDOPAParser().parse(timestamp, line)
CallPSRDOPA ==
    /\ call = NoCall
    /\ \E header \in FieldLists(HeaderFieldValues, MaxHeaderFields),
          n \in 1..MaxPsrdopData :
          call' = [op |-> "PSRDOPAParser.parse", timestamp |-> StampArg,
                   header |-> header, data |-> Numbered(n),
                   row |-> PSRDOPAParse(StampArg,
                                        Assemble(MarkerPSRDOPA, header, Numbered(n)))]
    /\ DecoderFrame

\* C12: for every matching #PSRDOPA line the record has exactly
\* 2 + headerFieldCount + 6 fields, however many data fields the line has.
C12_AlwaysSixDataFields ==
    call.op = "PSRDOPAParser.parse" =>
        Len(call.row) = 2 + Len(call.header) + PsrdopDataFields

MaxPairs == 2          \* (value, identifier) pairs of an assembled HWMONITORA line

\* identifiers of the assembled pairs: two that the decoder looks up, one it does not
PairIds == {<<"1","0","0">>, <<"1","6","0","0">>, <<"9","9","9">>}

\* the data fields of a HWMONITORA line: the count, then value1, id1, value2,
\* id2, ..., the value of the j-th pair being "v<j>", then an odd element if
\* trailing
HWData(ids, trailing) ==
    <<<<DigitChar(Len(ids))>>>>
        \o [i \in 1..(2 * Len(ids)) |->
                IF i % 2 = 1 THEN <<"v", DigitChar((i + 1) \div 2)>>
                ELSE ids[i \div 2]]
        \o (IF trailing THEN <<<<"x">>>> ELSE <<>>)

\* HWMonitorAParser().parse(timestamp, line)
CallHWMonitorA ==
    /\ call = NoCall
    /\ \E header \in FieldLists(HeaderFieldValues, MaxHeaderFields),
          ids \in SeqsUpTo(PairIds, MaxPairs), trailing \in BOOLEAN :
          call' = [op |-> "HWMonitorAParser.parse", timestamp |-> StampArg,
                   header |-> header, ids |-> ids, trailing |-> trailing,
                   row |-> HWMonitorAParse(StampArg,
                               Assemble(MarkerHWMONITORA, header,
                                        HWData(ids, trailing)))]
    /\ DecoderFrame

\* the value paired with the identifier id in the input: that of the last pair
\* that has the identifier, the empty string if no pair has it
Paired(ids, id) ==
    LET having == {j \in 1..Len(ids) : ids[j] = id}
    IN  IF having = {} THEN <<>>
        ELSE <<"v", DigitChar(CHOOSE j \in having : \A k \in having : k <= j)>>

\* C13: for every matching #HWMONITORA line the record has exactly
\* 2 + headerFieldCount + 18 fields: after the header fields, the nine sensor
\* values looked up by identifier (the empty string for an identifier that is
\* not in the input), then nine "0".
C13_EighteenSensorFields ==
    call.op = "HWMonitorAParser.parse" =>
        /\ Len(call.row) = 2 + Len(call.header) + 18
        /\ \A k \in 1..9 :
              /\ call.row[2 + Len(call.header) + k] = Paired(call.ids, SensorIds[k])
              /\ call.row[2 + Len(call.header) + 9 + k] = <<"0">>

MaxTimeData == 12      \* data fields of an assembled TIMEA line

\* texts float() accepts: a decimal, an exponent form, one beyond the range of a
\* double, not-a-number
NumericSamples == {<<"1",".","5">>, <<"-","2",".","5","e","-","3">>,
                   <<"1","e","9","9","9">>, <<"n","a","n">>}

\* texts float() refuses
OtherSamples == {<<"a","b","c">>, <<>>}

\* n data fields "d" of which the last two are x and y
TimeData(n, x, y) ==
    [i \in 1..n |-> IF i = n THEN y ELSE IF i = n - 1 THEN x ELSE <<"d">>]

\* TimeAParser().parse(timestamp, line)
CallTimeA ==
    /\ call = NoCall
    /\ \E header \in FieldLists(HeaderFieldValues, MaxHeaderFields),
          n \in 1..MaxTimeData, x, y \in NumericSamples \cup OtherSamples :
          call' = [op |-> "TimeAParser.parse", timestamp |-> StampArg,
                   header |-> header, data |-> TimeData(n, x, y),
                   row |-> TimeAParse(StampArg,
                               Assemble(MarkerTIMEA, header, TimeData(n, x, y)))]
    /\ DecoderFrame

\* the assembled line matches <marker>,<header>;<data>*: its data part is not empty
Matching(c) == Join(c.data, <<",">>) # <<>>

\* the fields of row that differ from those of plain, as 0-based positions
Differing(row, plain) == {i - 1 : i \in {k \in 1..Len(row) : row[k] # plain[k]}}

\* C19: for every matching #TIMEA line the record is the timestamp and the marker
\* followed by the header fields and the data fields, of which only the positions
\* 12 and 13 may differ from the input text, and those only when they hold the
\* text of a number: any other text there, and a record too short to have the
\* positions, is passed through unchanged.
C19_OnlyOffsetsReformatted ==
    (call.op = "TimeAParser.parse" /\ Matching(call)) =>
        LET plain == <<call.timestamp, MarkerTIMEA>> \o call.header \o call.data
        IN  /\ Len(call.row) = Len(plain)
            /\ Differing(call.row, plain) \subseteq
                  {i \in {TimeOffsetIndex, TimeOffsetStdIndex} :
                      i < Len(plain) /\ plain[i + 1] \in NumericSamples}

\* the reformatting step alone, on the record the decoder assembles (its header
\* fields after the first): only 12 and 13 differ, and only for a number
TimeAReformatIsLocal ==
    (call.op = "TimeAParser.parse" /\ Matching(call)) =>
        LET built == <<call.timestamp, MarkerTIMEA>> \o Tail(call.header) \o call.data
        IN  /\ Len(call.row) = Len(built)
            /\ Differing(call.row, built) \subseteq
                  {i \in {TimeOffsetIndex, TimeOffsetStdIndex} :
                      i < Len(built) /\ built[i + 1] \in NumericSamples}

MaxGroup == 3          \* lines of a group handed to parse_multi

\* the lines a group is made of: four sentences (the third with two empty
\* satellite fields, the fourth with blanks in and around its fields), a
\* sentence whose satellite count has MaxStrDigits + 1 digits, a line with the
\* marker and no * terminator, and a line without the marker
Sentences ==
    { [kind |-> "sentence", sats |-> <<"0","3">>,
       values |-> << <<"0","1">>, <<"4","0">>, <<"0","8","3">>, <<"4","6">>,
                     <<"0","2">>, <<"1","7">>, <<"3","0","8">>, <<"4","1">> >>],
      [kind |-> "sentence", sats |-> <<"0","3">>,
       values |-> << <<"0","3">>, <<"0","7">>, <<"3","4","4">>, <<"3","9">> >>],
      [kind |-> "sentence", sats |-> <<"0","1">>,
       values |-> << <<"0","4">>, <<>>, <<"0","9","0">>, <<>> >>],
      [kind |-> "sentence", sats |-> <<"0","1">>,
       values |-> << <<" ","0","5">>, <<" ">>, <<"1"," ","2">>, <<"3","3"," ">> >>],
      [kind |-> "refused", sats |-> [i \in 1..(MaxStrDigits + 1) |-> "0"],
       values |-> << <<"a">> >>],
      [kind |-> "nostar", sats |-> <<>>, values |-> <<>>],
      [kind |-> "other", sats |-> <<>>, values |-> <<>>] }

\* the text of a line of a group
SentenceLine(s) ==
    CASE s.kind \in {"sentence", "refused"} ->
            Join(<<MarkerGPGSV, <<"2">>, <<"1">>, s.sats>> \o s.values, <<",">>)
                \o <<"*", "7">>
      [] s.kind = "nostar" -> LineGPGSVNoStar
      [] s.kind = "other" -> LinePlain

\* the groups: the first line has the marker
Groups == {g \in FieldLists(Sentences, MaxGroup) : g[1].kind # "other"}

\* what a call of parse_multi on a group returned
Grouped(group, r) ==
    [op |-> "GPGSVParser.parse_multi", timestamp |-> StampArg, group |-> group,
     row |-> r.row, lines_consumed |-> r.lines_consumed]

\* a call of parse_multi on a group that raised
GroupRaised(group, error) ==
    [op |-> "GPGSVParser.parse_multi raised", timestamp |-> StampArg,
     group |-> group, error |-> error]

\* the call of parse_multi on the lines of a group
GroupCalled(group, lines) ==
    IF ParseMultiRaises(lines) THEN GroupRaised(group, GPGSVParseMulti(StampArg, lines))
    ELSE Grouped(group, GPGSVParseMulti(StampArg, lines))

\* GPGSVParser().parse_multi(timestamp, lines)
CallGPGSV ==
    /\ call = NoCall
    /\ \E group \in Groups :
          call' = GroupCalled(group, [i \in 1..Len(group) |-> SentenceLine(group[i])])
    /\ DecoderFrame

NextDecode ==
    \/ CallBestXYZ
    \/ CallTimeA
    \/ CallPSRDOPA
    \/ CallHWMonitorA
    \/ CallGPGSV

InitDecode == Constructed(TRUE, <<>>, DefaultOffset, <<1, 1>>, DefaultDuration)

SpecDecode == InitDecode /\ [][NextDecode]_vars

\* the lines of the group before its first line without the marker
RECURSIVE Leading(_)
Leading(group) ==
    IF group = <<>> \/ Head(group).kind = "other" THEN <<>>
    ELSE <<Head(group)>> \o Leading(Tail(group))

\* the satellite fields of the sentences of ls, concatenated in order
RECURSIVE Concatenated(_)
Concatenated(ls) ==
    IF ls = <<>> THEN <<>> ELSE Head(ls).values \o Concatenated(Tail(ls))

\* the totalSatellites field of the last sentence of ls, as a number
RECURSIVE LastSats(_)
LastSats(ls) ==
    IF ls = <<>> THEN 0
    ELSE IF ls[Len(ls)].kind = "sentence" THEN ParseInt(ls[Len(ls)].sats)
    ELSE LastSats(SubSeq(ls, 1, Len(ls) - 1))

\* the record has 402 fields, begins with the timestamp and the satellite count,
\* and every line up to the first without the marker was consumed
GroupShape(c) ==
    /\ c.lines_consumed = Len(Leading(c.group))
    /\ Len(c.row) = 402
    /\ c.row[1] = c.timestamp
    /\ ParseInt(c.row[2]) = LastSats(Leading(c.group))

\* C14: every call of parse_multi on a group whose first line has the marker
\* consumes every consecutive line with the marker and returns 402 fields, the
\* timestamp and totalSatellites followed by 400 slots that hold, in order, the
\* satellite fields of all consumed sentences, each slot beyond them being #NV.
C14_SlotsHoldTheFields ==
    (call.op \in {"GPGSVParser.parse_multi", "GPGSVParser.parse_multi raised"}
        /\ \A i \in 1..Len(call.group) : call.group[i].kind # "nostar") =>
        /\ call.op = "GPGSVParser.parse_multi"
        /\ GroupShape(call)
        /\ \A i \in 1..400 :
              call.row[2 + i] =
                  IF i <= Len(Concatenated(Leading(call.group)))
                  THEN Concatenated(Leading(call.group))[i] ELSE NoValue

(***************************************************************************)
(* CSVWriterManager called directly: the constructor, then __enter__ and    *)
(* write_row with registered and unregistered types, in any order.         *)
(***************************************************************************)

MaxWrites == 3         \* write_row calls made on one manager

\* the msg_type arguments: the channels and a type that is not one
WriteTypes == {HeaderTypes[i] : i \in 1..Len(HeaderTypes)} \cup {"UNKNOWN"}

\* the row arguments
WriteRows == {<<StampArg, <<"a">>>>, <<StampArg, <<"b">>>>}

\* the number of write_row calls made so far
Writes == IF call = NoCall THEN 0 ELSE call.n

\* CSVWriterManager(output_dir): __init__ makes the output directory and opens
\* nothing
ManagerInit ==
    /\ call = NoCall
    /\ call' = [op |-> "CSVWriterManager.__init__", n |-> 0]
    /\ dir_exists' = TRUE
    /\ UNCHANGED <<file_exists, content, offset_bytes, pos, input_open, has_lock,
                   pc, line_count, last_timestamp, ts_message_count,
                   messages_per_second, message_counter, recorded_count, admitted,
                   max_duration, start_time, now, csv_files, csv_rows,
                   messages_written, iter>>

\* CSVWriterManager.__enter__ on a constructed manager
ManagerEnter ==
    /\ call # NoCall
    /\ csv_files = <<>>
    /\ csv_files' = Entered(Len(HeaderTypes)).files
    /\ csv_rows' = Entered(Len(HeaderTypes)).rows
    /\ messages_written' = Entered(Len(HeaderTypes)).written
    /\ UNCHANGED <<file_exists, content, offset_bytes, pos, input_open, has_lock,
                   pc, line_count, last_timestamp, ts_message_count,
                   messages_per_second, message_counter, recorded_count, admitted,
                   max_duration, start_time, now, dir_exists, iter, call>>

\* the state after a write_row call that gave r
Written(msg_type, row, r) ==
    /\ csv_rows' = r.rows
    /\ messages_written' = r.written
    /\ call' = [op |-> "CSVWriterManager.write_row", n |-> Writes + 1,
                msg_type |-> msg_type, row |-> row, ok |-> r.ok]

\* csv_manager.write_row(msg_type, row) on a constructed manager, before or
\* after __enter__
CallWriteRow ==
    /\ call # NoCall
    /\ Writes < MaxWrites
    /\ \E msg_type \in WriteTypes, row \in WriteRows :
          Written(msg_type, row, WriteRow(csv_rows, messages_written, msg_type, row))
    /\ UNCHANGED <<file_exists, content, offset_bytes, pos, input_open, has_lock,
                   pc, line_count, last_timestamp, ts_message_count,
                   messages_per_second, message_counter, recorded_count, admitted,
                   max_duration, start_time, now, csv_files, dir_exists, iter>>

NextWriter ==
    \/ ManagerInit
    \/ ManagerEnter
    \/ CallWriteRow

SpecWriter == InitDecode /\ [][NextWriter]_vars

\* get_all_counts()
GetAllCounts == messages_written

\* C15: write_row returns false only for a type that is not a registered channel,
\* and then writes nothing and changes no count; for a registered type it appends
\* exactly the row to that channel and adds one to that channel's count only; so
\* get_all_counts() is always the number of rows written per channel.
C15_WriteRowFrame ==
    /\ [][call' # call /\ call'.op = "CSVWriterManager.write_row" =>
            IF call'.msg_type \in DOMAIN csv_rows
            THEN /\ call'.ok
                 /\ csv_rows' = [csv_rows EXCEPT
                                    ![call'.msg_type] = Append(@, call'.row)]
                 /\ GetAllCounts' = [GetAllCounts EXCEPT ![call'.msg_type] = @ + 1]
            ELSE /\ ~call'.ok
                 /\ UNCHANGED <<csv_rows, messages_written>>]_vars
    /\ [](/\ DOMAIN GetAllCounts = DOMAIN csv_rows
          /\ \A t \in DOMAIN csv_rows : GetAllCounts[t] = Len(DataRows(t)))

\* of three write_row calls one was refused and the two others went to TIME
C15_Witness ==
    /\ call.op = "CSVWriterManager.write_row"
    /\ call.n = 3
    /\ call.ok
    /\ Len(DataRows("TIME")) = 2
    /\ GetAllCounts = [t \in DOMAIN csv_rows |-> IF t = "TIME" THEN 2 ELSE 0]

(***************************************************************************)
(* DurationLimiter called directly: start() at any time and any number of   *)
(* times, the clock moving, for a maximum of any sign.                      *)
(***************************************************************************)

MaxLimit == 3          \* largest max_duration_seconds of a limiter
NegativeLimit == 1     \* the smallest max_duration_seconds is 0 - NegativeLimit
MaxClock == 6          \* seconds the clock moves while the limiter is watched

\* DurationLimiter.start, also on a limiter that was started before
LimiterStart ==
    /\ start_time' = <<now>>
    /\ UNCHANGED <<file_exists, content, offset_bytes, pos, input_open, has_lock,
                   pc, line_count, last_timestamp, ts_message_count,
                   messages_per_second, message_counter, recorded_count, admitted,
                   max_duration, now, csv_files, csv_rows, messages_written,
                   dir_exists, iter, call>>

\* a second passes
ClockTick ==
    /\ now < ClockStart + MaxClock
    /\ now' = now + 1
    /\ UNCHANGED <<file_exists, content, offset_bytes, pos, input_open, has_lock,
                   pc, line_count, last_timestamp, ts_message_count,
                   messages_per_second, message_counter, recorded_count, admitted,
                   max_duration, start_time, csv_files, csv_rows, messages_written,
                   dir_exists, iter, call>>

NextLimiter ==
    \/ LimiterStart
    \/ ClockTick

InitLimiter ==
    \E budget \in (0 - NegativeLimit)..MaxLimit :
        Constructed(TRUE, <<>>, DefaultOffset, <<1, 1>>, budget)

SpecLimiter == InitLimiter /\ [][NextLimiter]_vars

\* C16: over any interleaving of start() and clock advances, has_expired() is
\* false while the limiter was never started and, once started, true exactly
\* when the elapsed time is at least the maximum; get_remaining_seconds() is
\* never negative, is 0 whenever has_expired() is true, and is never larger after
\* a step than it was before it.
C16_LimiterQueries ==
    /\ [](IF start_time = <<>>
          THEN ~HasExpired(start_time, now, max_duration)
          ELSE HasExpired(start_time, now, max_duration)
                  <=> (now - start_time[1] >= max_duration))
    /\ [](/\ GetRemainingSeconds(start_time, now, max_duration) >= 0
          /\ HasExpired(start_time, now, max_duration) =>
                GetRemainingSeconds(start_time, now, max_duration) = 0)
    /\ [][GetRemainingSeconds(start_time', now', max_duration')
                <= GetRemainingSeconds(start_time, now, max_duration)]_vars

\* a limiter started again after time has passed: more remains than before
LimiterRestarted ==
    /\ start_time # <<>>
    /\ start_time[1] > ClockStart
    /\ now > start_time[1]
    /\ 0 < GetRemainingSeconds(start_time, now, max_duration)

\* a limiter with a negative maximum that was never started
LimiterNegative ==
    /\ start_time = <<>>
    /\ GetRemainingSeconds(start_time, now, max_duration) < 0

(***************************************************************************)
(* FrequencyFilter called directly: should_record() and reset().            *)
(***************************************************************************)

MaxSeen == 3           \* should_record calls made for one message type

FilterTypes == {"BESTXYZ", "TIME", "GPGSV"}

\* the state after a should_record call that gave r
Recorded(message_type, r) ==
    /\ message_counter' = r.counter
    /\ recorded_count' = r.recorded
    /\ call' = [op |-> "FrequencyFilter.should_record",
                message_type |-> message_type, result |-> r.result]

\* frequency_filter.should_record(message_type)
CallShouldRecord ==
    /\ \E message_type \in FilterTypes :
          /\ DictGet(message_counter, message_type, 0) < MaxSeen
          /\ Recorded(message_type,
                      ShouldRecord(message_counter, recorded_count,
                                   messages_per_second, message_type))
    /\ UNCHANGED <<file_exists, content, offset_bytes, pos, input_open, has_lock,
                   pc, line_count, last_timestamp, ts_message_count,
                   messages_per_second, admitted, max_duration, start_time, now,
                   csv_files, csv_rows, messages_written, dir_exists, iter>>

\* FrequencyFilter.reset: both dicts are cleared
FilterReset ==
    /\ message_counter' = <<>>
    /\ recorded_count' = <<>>
    /\ call' = [op |-> "FrequencyFilter.reset"]
    /\ UNCHANGED <<file_exists, content, offset_bytes, pos, input_open, has_lock,
                   pc, line_count, last_timestamp, ts_message_count,
                   messages_per_second, admitted, max_duration, start_time, now,
                   csv_files, csv_rows, messages_written, dir_exists, iter>>

NextFilter ==
    \/ CallShouldRecord
    \/ FilterReset

\* the sampling frequencies of the pipeline, 1/93 Hz, whose period int() turns
\* into 92, and -2/3 Hz, whose period int() turns into -1
FilterFrequencies == Frequencies \cup {<<1, 93>>, <<0 - 2, 3>>}

InitFilter ==
    \E f \in FilterFrequencies :
        Constructed(TRUE, <<>>, DefaultOffset, f, DefaultDuration)

SpecFilter == InitFilter /\ [][NextFilter]_vars

\* get_message_count() of a type is never more than the calls made for it, and
\* both dicts have the same keys
FilterCounts ==
    /\ DOMAIN message_counter = DOMAIN recorded_count
    /\ \A t \in DOMAIN message_counter :
          GetMessageCount(recorded_count, t) <= message_counter[t]

----------------------------------------------------------------------------
(* The run as a whole: missing input, arming of the guard, determinism.     *)

\* C18: when the input file cannot be opened, parse() ends with the error raised
\* to its caller and nothing was created: no output directory, no sink file, no
\* row, no count; nothing was read and nothing is left open.
C18_NoOutputWithoutInput ==
    ~file_exists =>
        /\ pc \in {"Idle", "Aborted"}
        /\ ~dir_exists
        /\ csv_files = <<>>
        /\ csv_rows = <<>>
        /\ messages_written = <<>>
        /\ ~input_open
        /\ line_count = 0
        /\ ENABLED Next <=> pc = "Idle"

\* parse() was called on a missing file and has raised
C18_Witness ==
    /\ ~file_exists
    /\ pc = "Aborted"
    /\ ~dir_exists


\* lines of the runs during which the clock moves
ClockLines == {LineTimeA, LinePlain}

\* runs whose budget outlasts one tick of the clock, so that lines are
\* processed after the clock has moved
InitClock ==
    \E body \in SeqsUpTo(ClockLines, MaxLines), f \in Frequencies :
        Constructed(TRUE, FileOf(<<LeadLine>> \o body), 0, f, MaxTick + 1)

SpecClock == InitClock /\ [][Next]_vars

\* C20: the guard is unarmed until the first line is processed (through opening,
\* seeking and lock detection), is armed by the first processed line with the
\* clock of that moment, and its start instant never changes afterwards.
C20_ArmedOnceAtFirstLine ==
    /\ [](start_time = <<>> <=> line_count = 0)
    /\ [](pc \in {"Idle", "Seeking", "Opening"} => start_time = <<>>)
    /\ [][start_time' # start_time =>
            /\ start_time = <<>>
            /\ pc = "Running"
            /\ line_count = 0
            /\ line_count' = 1
            /\ start_time' \in {<<t>> : t \in now..now'}]_vars

\* a second line was processed after the clock had moved, the guard still
\* holding the instant of the first line
C20_Witness ==
    /\ line_count >= 2
    /\ start_time = <<ClockStart>>
    /\ now > ClockStart
    /\ iter # NoIter
    /\ iter.line = LinePlain


\* the lines the loop of parse() is given: those from the cursor the seek leaves
InputLines == LinesFrom(content, SeekToStartPosition(content, offset_bytes).pos)

\* every line carries a week/seconds pair
AllPaired(ls) == \A i \in 1..Len(ls) : HasPair(ls[i])

\* the row of a line that carries a pair, from the line alone
RowOf(line) ==
    Decode(Classify(line), Render(PairInstant(SearchWeekSeconds(line, 1))), line)

\* the rows the lines ls give to a type sink, from the lines alone
RECURSIVE RowsOf(_, _)
RowsOf(ls, sink) ==
    IF ls = <<>> THEN <<>>
    ELSE (IF /\ Classify(Head(ls)) # "none"
             /\ SinkOf(Classify(Head(ls))) = sink
             /\ RowOf(Head(ls)) # <<>>
          THEN <<RowOf(Head(ls))>> ELSE <<>>) \o RowsOf(Tail(ls), sink)

\* the type sinks hold the rows of the first n lines of the input
HoldRowsOf(n) ==
    \A t \in TypeSinks :
        /\ DataRows(t) = RowsOf(SubSeq(InputLines, 1, n), t)
        /\ messages_written[t] = Len(DataRows(t))

\* the lines a run processes when the clock does not move while it runs
UntimedCount ==
    IF max_duration = 0 /\ InputLines # <<>> THEN 1 ELSE Len(InputLines)

\* C17 as stated: on an input whose lines all carry a week/seconds pair, every
\* run that ends without an I/O fault leaves in every type sink the same rows
\* and counts, those of the run during which the clock does not move.
C17_SameInputSameRows ==
    (pc \in {"Completed", "Expired"} /\ AllPaired(InputLines)) =>
        HoldRowsOf(UntimedCount)

\* C17, amended: on such an input the rows and counts of every type sink are
\* determined by the input, the configuration and the number of lines the run
\* has processed; a run that ends by exhausting the input has processed them all.
C17_SameLinesSameRows ==
    (pc \in {"Running", "Completed", "Expired"} /\ AllPaired(InputLines)) =>
        /\ HoldRowsOf(line_count)
        /\ pc = "Completed" => line_count = Len(InputLines)

\* a run over a BESTXYZA and a TIMEA line with a budget of one second
\* exhausted its input and wrote a row for each
C17_Witness ==
    /\ pc = "Completed"
    /\ max_duration = 1
    /\ AllPaired(InputLines)
    /\ line_count = 2
    /\ Len(DataRows("BESTXYZ")) = 1
    /\ Len(DataRows("TIME")) = 1


\* the last row of a sink
LastRow(sink) == DataRows(sink)[Len(DataRows(sink))]

\* C21: the guard is consulted only after a line was routed: expiry is detected
\* only by a step that processed a line, that line is then in the RAW sink and,
\* if it was decoded, in its type sink, and a run over an input that yields a
\* line processes at least one line, whatever the budget.
C21_ExpiryAfterRouting ==
    /\ [](pc = "Expired" =>
            /\ line_count >= 1
            /\ iter.failed = "no"
            /\ Len(DataRows("RAW")) = line_count
            /\ LastRow("RAW") = RawRow(iter.timestamp, iter.line)
            /\ iter.row # <<>> =>
                  /\ iter.wrote
                  /\ LastRow(SinkOf(iter.kind)) = iter.row)
    /\ []((pc \in {"Completed", "Expired"} /\ InputLines # <<>>) => line_count >= 1)
    /\ [][(pc = "Running" /\ pc' = "Expired") =>
            /\ line_count' = line_count + 1
            /\ Len(csv_rows'["RAW"]) = Len(csv_rows["RAW"]) + 1]_vars

\* with a budget of 0 the run stopped after its first line, a decoded one, with
\* input left; the line is in both sinks
C21_Witness ==
    /\ pc = "Expired"
    /\ max_duration = 0
    /\ line_count = 1
    /\ Len(InputLines) = 2
    /\ iter.row # <<>>
    /\ Len(DataRows("RAW")) = 1
    /\ Len(DataRows(SinkOf(iter.kind))) = 1


\* self.message_counter[message_type] of the filter, 0 for a type never seen
SeenCount(t) == DictGet(message_counter, t, 0)

RECURSIVE SumOver(_, _)
SumOver(f, S) ==
    IF S = {} THEN 0
    ELSE LET t == CHOOSE x \in S : TRUE IN f[t] + SumOver(f, S \ {t})

\* C22: after every loop iteration, for each of the five message types the
\* filter's seen counter equals the number of rows written to that type's sink,
\* and the five type counts together never exceed the RAW count.
C22_SeenEqualsWritten ==
    pc \in {"Running", "Completed", "Expired"} =>
        /\ \A t \in TypeSinks :
              /\ SeenCount(t) = Len(DataRows(t))
              /\ SeenCount(t) = messages_written[t]
        /\ SumOver(messages_written, TypeSinks) <= messages_written["RAW"]
        /\ DOMAIN message_counter \subseteq TypeSinks

\* the second line carried a marker but did not decode, so the filter was not
\* consulted for it; the first line was decoded, seen once and written once
C22_Witness ==
    /\ pc = "Running"
    /\ line_count = 2
    /\ iter.kind # "none"
    /\ iter.row = <<>>
    /\ SumOver(messages_written, TypeSinks) = 1
    /\ messages_written["RAW"] = 2
    /\ \E t \in TypeSinks : SeenCount(t) = 1 /\ Len(DataRows(t)) = 1


\* offset_bytes is the start of the file or the position after a newline
OnLineBoundary ==
    \/ offset_bytes = 0
    \/ /\ offset_bytes <= Len(content)
       /\ content[offset_bytes] = "\n"

\* C23: when offset_bytes falls on a line boundary (offset 0 included), the
\* seek discards nothing: the cursor it leaves is offset_bytes and the first
\* line read_lines yields is the first non-blank line from that offset on.
C23_BoundaryLineKept ==
    (pc = "Opening" /\ OnLineBoundary) =>
        /\ pos = offset_bytes
        /\ ReadLines(content, pos).line = ReadLines(content, offset_bytes).line


----------------------------------------------------------------------------
(* parse() called again on the same OEM719Parser: the components made by    *)
(* __init__ (timestamp_extractor, frequency_filter, duration_limiter) live  *)
(* on, the locals of parse() and its two context managers are new.          *)

MaxCalls == 2          \* calls of parse() on one parser

\* the number of the parse() call in progress
Calls == IF call.op = "OEM719Parser.parse" THEN call.n ELSE 1

\* parse() is called again after the previous call has returned or raised
ParseAgain ==
    /\ pc \in {"Completed", "Expired", "Aborted"}
    /\ Calls < MaxCalls
    /\ call' = [op |-> "OEM719Parser.parse", n |-> Calls + 1]
    /\ pc' = "Idle"
    /\ pos' = 0
    /\ input_open' = FALSE
    /\ has_lock' = FALSE
    /\ line_count' = 0
    /\ csv_files' = <<>>
    /\ csv_rows' = <<>>
    /\ messages_written' = <<>>
    /\ iter' = NoIter
    /\ UNCHANGED <<file_exists, content, offset_bytes, last_timestamp,
                   ts_message_count, messages_per_second, message_counter,
                   recorded_count, admitted, max_duration, start_time, now,
                   dir_exists>>

NextAgain ==
    \/ Next
    \/ ParseAgain

InitAgain ==
    \E body \in SeqsUpTo(ClockLines, MaxLines), budget \in 0..MaxBudget :
        Constructed(TRUE, FileOf(<<LeadLine>> \o body), 0, <<1, 1>>, budget)

SpecAgain == InitAgain /\ [][NextAgain]_vars

\* C24: a second parse() on the same parser starts with an unarmed guard, with
\* no last-known timestamp and with the filter's counters at zero.
C24_SecondRunStartsFresh ==
    (Calls >= 2 /\ pc = "Idle") =>
        /\ start_time = <<>>
        /\ last_timestamp = <<>>
        /\ \A t \in TypeSinks : SeenCount(t) = 0 /\ GetMessageCount(recorded_count, t) = 0

=============================================================================
